---- MODULE Spec2Model ----
(***************************************************************************)
(* Authorization and session core of app_model_backend: token versioning,  *)
(* logout blacklist, password-reset confirmation, the RBAC permission      *)
(* matrix, the polymorphic team-membership resolver and the organization   *)
(* membership operations, modelled from app/api/dependencies.py,           *)
(* app/api/endpoints/{auth,teams,organizations}.py and                     *)
(* app/core/permissions.py.                                                *)
(***************************************************************************)
EXTENDS Integers, Sequences, FiniteSets, TLC

VARIABLES
    users,            \* table users: id -> row
    teams,            \* table teams: id -> row
    team_members,     \* table team_members: <<team_id, member_type, member_id>> -> row
    organizations,    \* table organizations: id -> row
    org_members,      \* table organization_members: <<organization_id, user_id>> -> row
    type_records,     \* tables providers/clients/guests: set of <<kind, organization_id>>
    password_resets,  \* table password_resets: sequence of rows, index = id
    issued,           \* every token the server has handed out
    blacklist,        \* redis keys blacklist:{token}
    debug,            \* isDebugMode()
    procs,            \* in-flight requests of the interleaved specifications
    resp,             \* the last response sent
    rate_limits,      \* redis keys of the rate limiter: <<operation, email, client_ip>> -> counter
    now,              \* the clock, in seconds
    admitted          \* history: <<operation, email, client_ip>> -> times of the admitted requests

vars == <<users, teams, team_members, organizations, org_members, type_records,
          password_resets, issued, blacklist, debug, procs, resp,
          rate_limits, now, admitted>>

None == "None"

(***************************************************************************)
(* Bounds of the model.                                                    *)
(***************************************************************************)
MaxTV == 3          \* token_version is explored up to this value
MaxOrgs == 1        \* organizations created in the organization specifications

Emails == {"a@x.com", "b@x.com"}
Passwords == {"Secret1!", "NewPass1!"}
Max(S) == CHOOSE x \in S : \A y \in S : y <= x
NextId(S) == IF S = {} THEN 1 ELSE Max(S) + 1

(***************************************************************************)
(* app.core.security primitives (black boxes with stated contracts).       *)
(***************************************************************************)
get_password_hash(p) == <<"bcrypt", p>>
verify_password(p, digest) == digest = <<"bcrypt", p>>

\* str(user.id) / int(payload["sub"])
StrOfId(n) == ToString(n)
IdRange == 0..9
IntOfStr(s) == CHOOSE n \in IdRange : ToString(n) = s

create_access_token(user_id, token_version) ==
    [sub |-> StrOfId(user_id), has_tv |-> TRUE, tv |-> token_version, scope |-> None,
     signed |-> TRUE]
create_reset_session_token(user_id, token_version) ==
    [sub |-> StrOfId(user_id), has_tv |-> TRUE, tv |-> token_version,
     scope |-> "pwd_reset", signed |-> TRUE]

\* a string that is no JWT signed with SECRET_KEY
Garbage == [sub |-> None, has_tv |-> FALSE, tv |-> 0, scope |-> None, signed |-> FALSE]
\* every payload signed with SECRET_KEY that the requests below present
\* (has_tv = FALSE: the payload has no "tv" claim)
SignedTokens ==
    [sub : {None, "1", "2", "3"}, has_tv : {TRUE}, tv : 1..(MaxTV + 1),
     scope : {None, "pwd_reset"}, signed : {TRUE}]
    \cup [sub : {None, "1", "2", "3"}, has_tv : {FALSE}, tv : {0},
          scope : {None, "pwd_reset"}, signed : {TRUE}]
Tokens == SignedTokens \cup {Garbage}
\* jwt.decode(token, SECRET_KEY, algorithms=[ALGORITHM]) does not raise JWTError
JwtDecodes(tok) == tok.signed

(***************************************************************************)
(* get_current_user, app/api/dependencies.py:30-52                         *)
(***************************************************************************)
Unauthorized == [status |-> 401, user_id |-> None]

\* user.token_version or 1
TokenVersionOr1(v) == IF v = 0 THEN 1 ELSE v

get_current_user_NoVersionCheck(tok) ==
    IF ~JwtDecodes(tok) THEN Unauthorized
    ELSE IF tok.sub = None \/ ~tok.has_tv THEN Unauthorized
    ELSE LET uid == IntOfStr(tok.sub) IN
         IF uid \notin DOMAIN users THEN Unauthorized
         ELSE [status |-> 200, user_id |-> uid]

get_current_user(tok) ==
    IF ~JwtDecodes(tok) THEN Unauthorized
    ELSE IF tok.sub = None \/ ~tok.has_tv THEN Unauthorized
    ELSE LET uid == IntOfStr(tok.sub) IN
         IF uid \notin DOMAIN users
            \/ tok.tv # TokenVersionOr1(users[uid].token_version)
         THEN Unauthorized
         ELSE [status |-> 200, user_id |-> uid]

UserByEmail(email) == {u \in DOMAIN users : users[u].email = email}

(***************************************************************************)
(* Session endpoints, app/api/endpoints/auth.py                            *)
(***************************************************************************)
Login(email, password) ==
    /\ LET found == UserByEmail(email) IN
       IF found = {} \/ ~verify_password(password, users[CHOOSE u \in found : TRUE].password)
       THEN /\ resp' = [op |-> "login", status |-> 401, email |-> email,
                        detail |-> "Credenciais invalidas"]
            /\ UNCHANGED issued
       ELSE LET u == CHOOSE x \in found : TRUE
                tok == create_access_token(u, users[u].token_version) IN
            /\ issued' = issued \cup {tok}
            /\ resp' = [op |-> "login", status |-> 200, email |-> email, access_token |-> tok]
    /\ UNCHANGED <<users, teams, team_members, organizations, org_members, type_records,
                   password_resets, blacklist, debug, procs,
                   rate_limits, now, admitted>>

ReadMe(tok) ==
    /\ LET cu == get_current_user(tok) IN
       IF cu.status # 200
       THEN /\ resp' = [op |-> "me", status |-> 401, token |-> tok]
            /\ UNCHANGED issued
       ELSE LET fresh == create_access_token(cu.user_id, users[cu.user_id].token_version) IN
            /\ issued' = issued \cup {fresh}
            /\ resp' = [op |-> "me", status |-> 200, token |-> tok,
                        user |-> cu.user_id, access_token |-> fresh]
    /\ UNCHANGED <<users, teams, team_members, organizations, org_members, type_records,
                   password_resets, blacklist, debug, procs,
                   rate_limits, now, admitted>>

Logout(tok) ==
    /\ IF debug
       THEN /\ resp' = [op |-> "logout", status |-> 200, token |-> tok]
            /\ UNCHANGED blacklist
       ELSE IF ~JwtDecodes(tok)
       THEN \* JWTError is not caught in logout
            /\ resp' = [op |-> "logout", status |-> 500, token |-> tok]
            /\ UNCHANGED blacklist
       ELSE /\ blacklist' = blacklist \cup {tok}
            /\ resp' = [op |-> "logout", status |-> 200, token |-> tok]
    /\ UNCHANGED <<users, teams, team_members, organizations, org_members, type_records,
                   password_resets, issued, debug, procs,
                   rate_limits, now, admitted>>

\* ids of the unconsumed PasswordReset rows of a user
UnconsumedOf(resets, uid) ==
    {i \in DOMAIN resets : resets[i].user_id = uid /\ ~resets[i].consumed}

Register(email, password) ==
    /\ IF UserByEmail(email) # {}
       THEN /\ resp' = [op |-> "register", status |-> 400, email |-> email]
            /\ UNCHANGED <<users, teams, issued>>
       ELSE LET uid == NextId(DOMAIN users)
                tid == NextId(DOMAIN teams)
                row == [email |-> email, password |-> get_password_hash(password),
                        token_version |-> 1, two_factor_enabled |-> FALSE,
                        two_factor_secret |-> None, current_team_id |-> tid]
                tok == create_access_token(uid, row.token_version) IN
            /\ users' = [u \in DOMAIN users \cup {uid} |->
                            IF u = uid THEN row ELSE users[u]]
            /\ teams' = [t \in DOMAIN teams \cup {tid} |->
                            IF t = tid
                            THEN [user_id |-> uid, name |-> "Time de", personal_team |-> TRUE,
                                  archived |-> FALSE, archived_at |-> None]
                            ELSE teams[t]]
            /\ issued' = issued \cup {tok}
            /\ resp' = [op |-> "register", status |-> 200, email |-> email,
                        access_token |-> tok]
    /\ UNCHANGED <<team_members, organizations, org_members, type_records,
                   password_resets, blacklist, debug, procs,
                   rate_limits, now, admitted>>

ForgotPasswordConfirm_NoBump(tok, new_password) ==
    /\ IF ~JwtDecodes(tok) \/ tok.scope # "pwd_reset"
          \/ IntOfStr(tok.sub) \notin DOMAIN users
       THEN /\ resp' = [op |-> "confirm", status |-> 401, token |-> tok]
            /\ UNCHANGED <<users, password_resets>>
       ELSE LET uid == IntOfStr(tok.sub)
                open == UnconsumedOf(password_resets, uid) IN
            /\ users' = [users EXCEPT ![uid].password = get_password_hash(new_password)]
            /\ IF Cardinality(open) > 1
               THEN /\ resp' = [op |-> "confirm", status |-> 500, token |-> tok]
                    /\ UNCHANGED password_resets
               ELSE /\ password_resets' =
                          [i \in DOMAIN password_resets |->
                              IF i \in open
                              THEN [password_resets[i] EXCEPT !.consumed = TRUE]
                              ELSE password_resets[i]]
                    /\ resp' = [op |-> "confirm", status |-> 204, token |-> tok,
                                user |-> uid]
    /\ UNCHANGED <<teams, team_members, organizations, org_members, type_records,
                   issued, blacklist, debug, procs,
                   rate_limits, now, admitted>>

ForgotPasswordConfirm(tok, new_password) ==
    /\ IF ~JwtDecodes(tok) \/ tok.scope # "pwd_reset"
          \/ IntOfStr(tok.sub) \notin DOMAIN users
       THEN /\ resp' = [op |-> "confirm", status |-> 401, token |-> tok]
            /\ UNCHANGED <<users, password_resets>>
       ELSE LET uid == IntOfStr(tok.sub)
                open == UnconsumedOf(password_resets, uid) IN
            /\ users[uid].token_version < MaxTV
            /\ users' = [users EXCEPT
                           ![uid].password = get_password_hash(new_password),
                           ![uid].token_version = TokenVersionOr1(@) + 1]
            /\ IF Cardinality(open) > 1
               THEN \* scalar_one_or_none() raises MultipleResultsFound after the
                    \* first commit
                    /\ resp' = [op |-> "confirm", status |-> 500, token |-> tok]
                    /\ UNCHANGED password_resets
               ELSE /\ password_resets' =
                          [i \in DOMAIN password_resets |->
                              IF i \in open
                              THEN [password_resets[i] EXCEPT !.consumed = TRUE]
                              ELSE password_resets[i]]
                    /\ resp' = [op |-> "confirm", status |-> 204, token |-> tok,
                                user |-> uid]
    /\ UNCHANGED <<teams, team_members, organizations, org_members, type_records,
                   issued, blacklist, debug, procs,
                   rate_limits, now, admitted>>

(***************************************************************************)
(* Session specification: one registered user, optionally holding a reset  *)
(* session issued by forgot-password/verify.                               *)
(***************************************************************************)
User1 == [email |-> "a@x.com", password |-> get_password_hash("Secret1!"),
          token_version |-> 1, two_factor_enabled |-> FALSE,
          two_factor_secret |-> None, current_team_id |-> 1]
Team1 == [user_id |-> 1, name |-> "Time de", personal_team |-> TRUE, archived |-> FALSE,
          archived_at |-> None]
IssuedReset1 == [user_id |-> 1, email |-> "a@x.com", otp_hash |-> <<"bcrypt", "123456">>,
                 otp_expires_at |-> 600, otp_verified |-> TRUE, require_totp |-> FALSE,
                 totp_verified |-> FALSE, reset_session_issued |-> TRUE,
                 consumed |-> FALSE, attempts |-> 0]
NoResp == [op |-> "none", status |-> 0]

InitSession ==
    /\ users = (1 :> User1)
    /\ teams = (1 :> Team1)
    /\ team_members = << >>
    /\ organizations = << >>
    /\ org_members = << >>
    /\ type_records = {}
    /\ \/ /\ password_resets = << >>
          /\ issued = {create_access_token(1, 1)}
       \/ /\ password_resets = <<IssuedReset1>>
          /\ issued = {create_access_token(1, 1), create_reset_session_token(1, 1)}
    /\ blacklist = {}
    /\ debug \in BOOLEAN
    /\ rate_limits = <<>>
    /\ now = 0
    /\ admitted = <<>>
    /\ procs = << >>
    /\ resp = NoResp

NextSession ==
    \/ \E e \in Emails, p \in Passwords : Login(e, p)
    \/ \E e \in Emails, p \in Passwords : Register(e, p)
    \/ \E tok \in Tokens : ReadMe(tok)
    \/ \E tok \in issued \cup {Garbage} : Logout(tok)
    \/ \E tok \in issued \cup {Garbage}, p \in Passwords : ForgotPasswordConfirm(tok, p)

SpecSession == InitSession /\ [][NextSession]_vars

(***************************************************************************)
(* Claims on the session lifecycle, checked under SpecSession.             *)
(***************************************************************************)
\* C1: a protected endpoint (GET /me) accepts a bearer token only if its tv
\* claim equals the token_version stored for the user named by sub; a token
\* whose tv is missing or differs from the stored value is answered 401.
C1_TokenVersionGate ==
    resp.op = "me" =>
        LET tok == resp.token IN
        /\ resp.status = 200 =>
              /\ tok.signed /\ tok.has_tv /\ tok.sub # None
              /\ IntOfStr(tok.sub) \in DOMAIN users
              /\ tok.tv = users[IntOfStr(tok.sub)].token_version
        /\ (~tok.has_tv
            \/ (tok.sub # None /\ IntOfStr(tok.sub) \in DOMAIN users
                /\ tok.tv # users[IntOfStr(tok.sub)].token_version))
              => resp.status = 401

\* a well-signed token of user 1 carrying a tv other than the stored one was
\* presented to /me and rejected
C1_Witness ==
    /\ resp.op = "me" /\ resp.status = 401
    /\ resp.token.signed /\ resp.token.has_tv /\ resp.token.sub = "1"
    /\ resp.token.tv # users[1].token_version

\* C2: a successful forgot-password confirm leaves every token issued to that
\* user before it rejected by get_current_user (the guard of every protected
\* endpoint), and every token the server issues is accepted when issued, so a
\* token issued after the confirm (carrying the new tv) is accepted.
C2_ConfirmInvalidatesOldTokens ==
    /\ [][(resp'.op = "confirm" /\ resp'.status = 204) =>
            /\ \A tok \in issued :
                  tok.sub = StrOfId(resp'.user) => get_current_user(tok)'.status = 401
            /\ \A tok \in SignedTokens :
                  tok = create_access_token(resp'.user, users'[resp'.user].token_version)
                     => get_current_user(tok)'.status = 200]_vars
    /\ [](resp.op \in {"login", "me", "register"} /\ resp.status = 200
            => get_current_user(resp.access_token).status = 200)

\* a confirm has succeeded for user 1 while a session token issued at
\* token_version 1 is outstanding
C2_Witness ==
    /\ resp.op = "confirm" /\ resp.status = 204 /\ resp.user = 1
    /\ create_access_token(1, 1) \in issued
    /\ users[1].token_version = 2

\* C10: after a logout in non-debug mode the blacklisted token is answered 401
\* by a protected endpoint although its tv still equals the token_version.
C10_LoggedOutTokenRejected ==
    (resp.op = "me" /\ ~debug /\ resp.token \in blacklist) => resp.status = 401

\* C11: a token of scope pwd_reset presented as bearer token to a protected
\* endpoint other than the confirm (GET /me) is answered 401.
C11_ResetTokenOnlyConfirms ==
    (resp.op = "me" /\ resp.token.scope = "pwd_reset") => resp.status = 401

\* C12: a confirm made with a reset-session token whose tv the user's
\* token_version has already advanced past (a confirm with it has succeeded)
\* is answered 401.
C12_ResetTokenSingleUse ==
    [][(/\ resp'.op = "confirm"
        /\ resp'.token.signed /\ resp'.token.scope = "pwd_reset"
        /\ resp'.token.has_tv /\ resp'.token.sub # None
        /\ IntOfStr(resp'.token.sub) \in DOMAIN users
        /\ users[IntOfStr(resp'.token.sub)].token_version > resp'.token.tv)
       => resp'.status = 401]_vars

(***************************************************************************)
(* Permission matrix, app/core/permissions.py                              *)
(***************************************************************************)
TeamRole == {"admin", "member", "viewer"}
OrganizationType == {"provider", "client", "guest"}
Resource == {"team", "team_member", "project", "service", "invoice", "report",
             "organization"}
Action == {"read", "create", "update", "delete", "invite", "remove", "manage"}
MemberStatus == {"active", "inactive", "pending"}

ROLE_PERMISSIONS_MemberCreatesProjects(role) ==
    CASE role = "admin" ->
            {<<"team", "read">>, <<"team", "update">>, <<"team", "delete">>,
             <<"team_member", "read">>, <<"team_member", "invite">>,
             <<"team_member", "remove">>, <<"team_member", "manage">>,
             <<"project", "read">>,
             <<"project", "update">>, <<"project", "delete">>,
             <<"service", "read">>, <<"service", "create">>,
             <<"service", "update">>, <<"service", "delete">>,
             <<"invoice", "read">>, <<"invoice", "create">>,
             <<"report", "read">>,
             <<"organization", "read">>}
      [] role = "member" ->
            {<<"team", "read">>, <<"team_member", "read">>,
             <<"project", "read">>, <<"project", "create">>, <<"project", "update">>,
             <<"service", "read">>, <<"service", "update">>,
             <<"invoice", "read">>,
             <<"report", "read">>}
      [] role = "viewer" ->
            {<<"team", "read">>, <<"team_member", "read">>,
             <<"project", "read">>, <<"service", "read">>}
      [] OTHER -> {}

ROLE_PERMISSIONS(role) ==
    CASE role = "admin" ->
            {<<"team", "read">>, <<"team", "update">>, <<"team", "delete">>,
             <<"team_member", "read">>, <<"team_member", "invite">>,
             <<"team_member", "remove">>, <<"team_member", "manage">>,
             <<"project", "read">>, <<"project", "create">>,
             <<"project", "update">>, <<"project", "delete">>,
             <<"service", "read">>, <<"service", "create">>,
             <<"service", "update">>, <<"service", "delete">>,
             <<"invoice", "read">>, <<"invoice", "create">>,
             <<"report", "read">>,
             <<"organization", "read">>}
      [] role = "member" ->
            {<<"team", "read">>, <<"team_member", "read">>,
             <<"project", "read">>, <<"project", "update">>,
             <<"service", "read">>, <<"service", "update">>,
             <<"invoice", "read">>,
             <<"report", "read">>}
      [] role = "viewer" ->
            {<<"team", "read">>, <<"team_member", "read">>,
             <<"project", "read">>, <<"service", "read">>}
      [] OTHER -> {}

ORG_TYPE_PERMISSIONS(org_type) ==
    CASE org_type = "provider" ->
            {<<"service", "create">>, <<"service", "update">>, <<"service", "delete">>,
             <<"project", "update">>, <<"project", "create">>}
      [] org_type = "client" ->
            {<<"invoice", "read">>, <<"project", "create">>, <<"service", "read">>}
      [] org_type = "guest" ->
            {<<"project", "read">>, <<"service", "read">>}
      [] OTHER -> {}

has_permission_OverlayReplaces(role, resource, action, org_type) ==
    IF org_type # None
    THEN <<resource, action>> \in ORG_TYPE_PERMISSIONS(org_type)
    ELSE <<resource, action>> \in ROLE_PERMISSIONS(role)

has_permission(role, resource, action, org_type) ==
    IF org_type # None
    THEN <<resource, action>> \in (ROLE_PERMISSIONS(role) \cup ORG_TYPE_PERMISSIONS(org_type))
    ELSE <<resource, action>> \in ROLE_PERMISSIONS(role)

(***************************************************************************)
(* Membership resolver, app/api/dependencies.py:74-169.  The organization  *)
(* query has no ORDER BY and takes .first(): each matching row is a        *)
(* possible result, so the resolver yields the set of possible outcomes.   *)
(***************************************************************************)
NoOrg == 0   \* "organization": None

TeamNotFound == [status |-> 404, detail |-> "Team not found"]
NotAMember == [status |-> 403, detail |-> "You are not a member of this team"]

Context(tid, uid, role, member_type, org, org_type) ==
    [status |-> 200, team_id |-> tid, user |-> uid, role |-> role,
     member_type |-> member_type, organization |-> org, org_type |-> org_type]

HasActiveDirectRow(uid, tid) ==
    /\ <<tid, "user", uid>> \in DOMAIN team_members
    /\ team_members[<<tid, "user", uid>>].status = "active"

OrgMembershipRows_AnyMemberStatus(uid, tid) ==
    {o \in DOMAIN organizations :
        /\ <<tid, "organization", o>> \in DOMAIN team_members
        /\ <<o, uid>> \in DOMAIN org_members
        /\ team_members[<<tid, "organization", o>>].status = "active"}

\* TeamMember JOIN Organization JOIN OrganizationMember, filtered
OrgMembershipRows(uid, tid) ==
    {o \in DOMAIN organizations :
        /\ <<tid, "organization", o>> \in DOMAIN team_members
        /\ <<o, uid>> \in DOMAIN org_members
        /\ team_members[<<tid, "organization", o>>].status = "active"
        /\ org_members[<<o, uid>>].status = "active"}

get_team_member_context_DirectFirst(uid, tid) ==
    IF tid \notin DOMAIN teams THEN {TeamNotFound}
    ELSE IF HasActiveDirectRow(uid, tid)
    THEN {Context(tid, uid, team_members[<<tid, "user", uid>>].role, "user", NoOrg, None)}
    ELSE IF teams[tid].user_id = uid
    THEN {Context(tid, uid, "admin", "owner", NoOrg, None)}
    ELSE IF OrgMembershipRows(uid, tid) # {}
    THEN {Context(tid, uid, team_members[<<tid, "organization", o>>].role, "organization",
                  o, organizations[o].organization_type) : o \in OrgMembershipRows(uid, tid)}
    ELSE {NotAMember}

get_team_member_context_UserOrgRole(uid, tid) ==
    IF tid \notin DOMAIN teams THEN {TeamNotFound}
    ELSE IF teams[tid].user_id = uid
    THEN {Context(tid, uid, "admin", "owner", NoOrg, None)}
    ELSE IF HasActiveDirectRow(uid, tid)
    THEN {Context(tid, uid, team_members[<<tid, "user", uid>>].role, "user", NoOrg, None)}
    ELSE IF OrgMembershipRows(uid, tid) # {}
    THEN {Context(tid, uid, org_members[<<o, uid>>].role, "organization",
                  o, organizations[o].organization_type) : o \in OrgMembershipRows(uid, tid)}
    ELSE {NotAMember}

get_team_member_context(uid, tid) ==
    IF tid \notin DOMAIN teams THEN {TeamNotFound}
    ELSE IF teams[tid].user_id = uid
    THEN {Context(tid, uid, "admin", "owner", NoOrg, None)}
    ELSE IF HasActiveDirectRow(uid, tid)
    THEN {Context(tid, uid, team_members[<<tid, "user", uid>>].role, "user", NoOrg, None)}
    ELSE IF OrgMembershipRows(uid, tid) # {}
    THEN {Context(tid, uid, team_members[<<tid, "organization", o>>].role, "organization",
                  o, organizations[o].organization_type) : o \in OrgMembershipRows(uid, tid)}
    ELSE {NotAMember}

(***************************************************************************)
(* Authorization guard, app/api/dependencies.py:172-219                    *)
(***************************************************************************)
Insufficient(resource, action) ==
    [status |-> 403, detail |-> "Insufficient permissions",
     action |-> action, resource |-> resource]

permission_checker(context, resource, action) ==
    IF context.status # 200 THEN context
    ELSE IF ~has_permission(context.role, resource, action, context.org_type)
    THEN Insufficient(resource, action)
    ELSE context

require_permission_AnyMember(resource, action, uid, tid) ==
    get_team_member_context(uid, tid)

require_permission(resource, action, uid, tid) ==
    {permission_checker(c, resource, action) : c \in get_team_member_context(uid, tid)}

(***************************************************************************)
(* Team endpoints, app/api/endpoints/teams.py.  Each runs get_current_user *)
(* and the require_permission guard before its body.                       *)
(***************************************************************************)
CredentialsException == [status |-> 401, detail |-> "Credenciais invalidas"]

Guard(tok, resource, action, tid) ==
    LET cu == get_current_user(tok) IN
    IF cu.status # 200 THEN {CredentialsException}
    ELSE require_permission(resource, action, cu.user_id, tid)

TeamResp(op, tok, tid, status, g) ==
    [op |-> op, token |-> tok, team_id |-> tid, status |-> status, guard |-> g]

UpdateTeam(tok, tid, name) ==
    /\ \E g \in Guard(tok, "team", "update", tid) :
          IF g.status # 200
          THEN /\ resp' = TeamResp("update_team", tok, tid, g.status, g)
               /\ UNCHANGED teams
          ELSE /\ teams' = [teams EXCEPT ![tid].name = name]
               /\ resp' = TeamResp("update_team", tok, tid, 200, g)
    /\ UNCHANGED <<users, team_members, organizations, org_members, type_records,
                   password_resets, issued, blacklist, debug, procs,
                   rate_limits, now, admitted>>

DeleteTeam_NoPersonalCheck(tok, tid) ==
    /\ \E g \in Guard(tok, "team", "delete", tid) :
          IF g.status # 200
          THEN /\ resp' = TeamResp("delete_team", tok, tid, g.status, g)
               /\ UNCHANGED teams
          ELSE /\ teams' = [teams EXCEPT ![tid].archived = TRUE,
                                         ![tid].archived_at = "now"]
               /\ resp' = TeamResp("delete_team", tok, tid, 204, g)
    /\ UNCHANGED <<users, team_members, organizations, org_members, type_records,
                   password_resets, issued, blacklist, debug, procs,
                   rate_limits, now, admitted>>

DeleteTeam(tok, tid) ==
    /\ \E g \in Guard(tok, "team", "delete", tid) :
          IF g.status # 200
          THEN /\ resp' = TeamResp("delete_team", tok, tid, g.status, g)
               /\ UNCHANGED teams
          ELSE IF teams[tid].personal_team
          THEN /\ resp' = TeamResp("delete_team", tok, tid, 400, g)
               /\ UNCHANGED teams
          ELSE /\ teams' = [teams EXCEPT ![tid].archived = TRUE,
                                         ![tid].archived_at = "now"]
               /\ resp' = TeamResp("delete_team", tok, tid, 204, g)
    /\ UNCHANGED <<users, team_members, organizations, org_members, type_records,
                   password_resets, issued, blacklist, debug, procs,
                   rate_limits, now, admitted>>

InsertRow(table, key, row) ==
    [k \in DOMAIN table \cup {key} |-> IF k = key THEN row ELSE table[k]]
DeleteRow(table, key) ==
    [k \in DOMAIN table \ {key} |-> table[k]]

AddUserToTeam(tok, tid, user_id, role) ==
    /\ \E g \in Guard(tok, "team_member", "invite", tid) :
          LET key == <<tid, "user", user_id>> IN
          IF g.status # 200
          THEN /\ resp' = TeamResp("add_user_to_team", tok, tid, g.status, g)
               /\ UNCHANGED team_members
          ELSE IF user_id \notin DOMAIN users
          THEN /\ resp' = TeamResp("add_user_to_team", tok, tid, 404, g)
               /\ UNCHANGED team_members
          ELSE IF key \in DOMAIN team_members
          THEN /\ resp' = TeamResp("add_user_to_team", tok, tid, 400, g)
               /\ UNCHANGED team_members
          ELSE /\ team_members' =
                     InsertRow(team_members, key, [role |-> role, status |-> "active"])
               /\ resp' = TeamResp("add_user_to_team", tok, tid, 201, g)
    /\ UNCHANGED <<users, teams, organizations, org_members, type_records,
                   password_resets, issued, blacklist, debug, procs,
                   rate_limits, now, admitted>>

AddOrganizationToTeam(tok, tid, organization_id, role) ==
    /\ \E g \in Guard(tok, "team_member", "invite", tid) :
          LET key == <<tid, "organization", organization_id>> IN
          IF g.status # 200
          THEN /\ resp' = TeamResp("add_organization_to_team", tok, tid, g.status, g)
               /\ UNCHANGED team_members
          ELSE IF organization_id \notin DOMAIN organizations
          THEN /\ resp' = TeamResp("add_organization_to_team", tok, tid, 404, g)
               /\ UNCHANGED team_members
          ELSE IF key \in DOMAIN team_members
          THEN /\ resp' = TeamResp("add_organization_to_team", tok, tid, 400, g)
               /\ UNCHANGED team_members
          ELSE /\ team_members' =
                     InsertRow(team_members, key, [role |-> role, status |-> "active"])
               /\ resp' = TeamResp("add_organization_to_team", tok, tid, 201, g)
    /\ UNCHANGED <<users, teams, organizations, org_members, type_records,
                   password_resets, issued, blacklist, debug, procs,
                   rate_limits, now, admitted>>

\* model_dump(exclude_unset=True) + setattr: only the fields sent are written
ApplyUpdate(row, role, status) ==
    [role |-> IF role = None THEN row.role ELSE role,
     status |-> IF status = None THEN row.status ELSE status]

UpdateTeamMember(tok, tid, member_type, member_id, role, status) ==
    /\ \E g \in Guard(tok, "team_member", "manage", tid) :
          LET key == <<tid, member_type, member_id>> IN
          IF g.status # 200
          THEN /\ resp' = TeamResp("update_team_member", tok, tid, g.status, g)
               /\ UNCHANGED team_members
          ELSE IF key \notin DOMAIN team_members
          THEN /\ resp' = TeamResp("update_team_member", tok, tid, 404, g)
               /\ UNCHANGED team_members
          ELSE /\ team_members' =
                     [team_members EXCEPT ![key] = ApplyUpdate(@, role, status)]
               /\ resp' = TeamResp("update_team_member", tok, tid, 200, g)
    /\ UNCHANGED <<users, teams, organizations, org_members, type_records,
                   password_resets, issued, blacklist, debug, procs,
                   rate_limits, now, admitted>>

RemoveTeamMember(tok, tid, member_type, member_id) ==
    /\ \E g \in Guard(tok, "team_member", "remove", tid) :
          LET key == <<tid, member_type, member_id>> IN
          IF g.status # 200
          THEN /\ resp' = TeamResp("remove_team_member", tok, tid, g.status, g)
               /\ UNCHANGED team_members
          ELSE IF key \notin DOMAIN team_members
          THEN /\ resp' = TeamResp("remove_team_member", tok, tid, 404, g)
               /\ UNCHANGED team_members
          ELSE /\ team_members' = DeleteRow(team_members, key)
               /\ resp' = TeamResp("remove_team_member", tok, tid, 204, g)
    /\ UNCHANGED <<users, teams, organizations, org_members, type_records,
                   password_resets, issued, blacklist, debug, procs,
                   rate_limits, now, admitted>>

(***************************************************************************)
(* Team specification: user 1 owns team 1; user 2 belongs to organization  *)
(* 1; rows of team_members are created, changed and removed through the    *)
(* guarded endpoints.                                                      *)
(***************************************************************************)
User2 == [email |-> "b@x.com", password |-> get_password_hash("Secret1!"),
          token_version |-> 1, two_factor_enabled |-> FALSE,
          two_factor_secret |-> None, current_team_id |-> 2]
SharedTeam == [user_id |-> 1, name |-> "Team", personal_team |-> FALSE,
               archived |-> FALSE, archived_at |-> None]

TeamTokens == {create_access_token(1, 1), create_access_token(2, 1)}
TeamIdInputs == {1, 2}
UserIdInputs == {1, 2, 3}
OrgIdInputs == {1, 2}
\* rows that update/remove requests address
MemberKeyInputs == {<<"user", 2>>, <<"organization", 1>>}
\* TeamMemberUpdate bodies: one field set, the other unset
UpdateInputs == {<<r, None>> : r \in TeamRole} \cup {<<None, st>> : st \in MemberStatus}
\* (organization_type of organization 1, which user 1 created, the role
\* user 1 gave user 2 inside it and the status user 1 then set on that row)
OrgInputs == {<<"provider", "member", "active">>, <<"client", "admin", "active">>,
              <<"guest", "admin", "inactive">>}

InitTeam ==
    /\ users = (1 :> User1 @@ 2 :> User2)
    /\ teams = (1 :> SharedTeam)
    /\ team_members = << >>
    /\ \E c \in OrgInputs :
          /\ organizations = (1 :> [organization_type |-> c[1], archived |-> FALSE])
          /\ org_members = (<<1, 1>> :> [role |-> "admin", status |-> "active"]
                             @@ <<1, 2>> :> [role |-> c[2], status |-> c[3]])
    /\ type_records = {}
    /\ password_resets = << >>
    /\ issued = TeamTokens
    /\ blacklist = {}
    /\ debug = FALSE
    /\ rate_limits = <<>>
    /\ now = 0
    /\ admitted = <<>>
    /\ procs = << >>
    /\ resp = NoResp

NextTeam ==
    \/ \E tok \in TeamTokens \cup {Garbage}, tid \in TeamIdInputs :
          UpdateTeam(tok, tid, "Renamed")
    \/ \E tok \in TeamTokens, u \in UserIdInputs, r \in TeamRole :
          AddUserToTeam(tok, 1, u, r)
    \/ \E tok \in TeamTokens, o \in OrgIdInputs, r \in TeamRole :
          AddOrganizationToTeam(tok, 1, o, r)
    \/ \E tok \in TeamTokens, k \in MemberKeyInputs, upd \in UpdateInputs :
          UpdateTeamMember(tok, 1, k[1], k[2], upd[1], upd[2])
    \/ \E tok \in TeamTokens, k \in MemberKeyInputs :
          RemoveTeamMember(tok, 1, k[1], k[2])

SpecTeam == InitTeam /\ [][NextTeam]_vars

(***************************************************************************)
(* Claims on the resolver and the guard, checked under SpecTeam.           *)
(***************************************************************************)
TeamOps == {"update_team", "delete_team", "add_user_to_team",
            "add_organization_to_team", "update_team_member", "remove_team_member"}

\* the (resource, action) each endpoint declares in its require_permission
RequiredPermission(op) ==
    CASE op = "update_team" -> <<"team", "update">>
      [] op = "delete_team" -> <<"team", "delete">>
      [] op = "add_user_to_team" -> <<"team_member", "invite">>
      [] op = "add_organization_to_team" -> <<"team_member", "invite">>
      [] op = "update_team_member" -> <<"team_member", "manage">>
      [] op = "remove_team_member" -> <<"team_member", "remove">>

\* the response r answers a team request of an authenticated caller on an
\* existing team (judged on the tables before the request)
AuthenticatedTeamRequest(r) ==
    /\ r.op \in TeamOps
    /\ get_current_user(r.token).status = 200
    /\ r.team_id \in DOMAIN teams
CallerOf(r) == get_current_user(r.token).user_id

\* C3: the resolver answers with the first applicable path in the order
\* ownership, direct membership, organization: an owner resolves to admin
\* (member_type owner, no org_type) whatever TeamMember rows exist, and a
\* non-owner with an active direct row resolves to that row's role with no
\* org_type whatever organization rows exist; the guarded endpoints receive
\* exactly that context.
C3_ResolverPrecedence ==
    /\ [](\A u \in DOMAIN users, t \in DOMAIN teams :
            \A c \in get_team_member_context(u, t) :
               /\ teams[t].user_id = u =>
                     c = Context(t, u, "admin", "owner", NoOrg, None)
               /\ (teams[t].user_id # u /\ HasActiveDirectRow(u, t)) =>
                     c = Context(t, u, team_members[<<t, "user", u>>].role, "user",
                                 NoOrg, None))
    /\ [][AuthenticatedTeamRequest(resp') =>
            LET u == CallerOf(resp')
                t == resp'.team_id
                req == RequiredPermission(resp'.op) IN
            /\ teams[t].user_id = u =>
                  resp'.guard = Context(t, u, "admin", "owner", NoOrg, None)
            /\ (teams[t].user_id # u /\ HasActiveDirectRow(u, t)) =>
                  resp'.guard \in
                     {Context(t, u, team_members[<<t, "user", u>>].role, "user",
                              NoOrg, None),
                      Insufficient(req[1], req[2])}]_vars

\* the owner of team 1 also has an active TeamMember row of role viewer and
\* a request of the owner went through as admin by ownership
C3_Witness ==
    /\ <<1, "user", 1>> \in DOMAIN team_members
    /\ team_members[<<1, "user", 1>>] = [role |-> "viewer", status |-> "active"]
    /\ resp.op = "update_team" /\ resp.status = 200
    /\ resp.token = create_access_token(1, 1)
    /\ resp.guard.member_type = "owner" /\ resp.guard.role = "admin"

\* C4: a user who reaches a team only through an organization resolves to the
\* role of that organization's TeamMember row and to that organization's
\* type, whatever the user's own role inside the organization.
C4_OrganizationPathRole ==
    /\ [](\A u \in DOMAIN users, t \in DOMAIN teams :
            (teams[t].user_id # u /\ ~HasActiveDirectRow(u, t)
                /\ OrgMembershipRows(u, t) # {}) =>
               \A c \in get_team_member_context(u, t) :
                  /\ c.status = 200 /\ c.member_type = "organization"
                  /\ c.organization \in OrgMembershipRows(u, t)
                  /\ c.role = team_members[<<t, "organization", c.organization>>].role
                  /\ c.org_type = organizations[c.organization].organization_type)
    /\ [][(AuthenticatedTeamRequest(resp') /\ resp'.guard.status = 200
             /\ resp'.guard.member_type = "organization") =>
            LET c == resp'.guard IN
            /\ c.organization \in OrgMembershipRows(c.user, c.team_id)
            /\ c.role = team_members[<<c.team_id, "organization", c.organization>>].role
            /\ c.org_type = organizations[c.organization].organization_type]_vars

\* user 2, a plain member inside organization 1, acted on team 1 as admin
\* through the organization's admin row
C4_Witness ==
    /\ org_members[<<1, 2>>].role = "member"
    /\ resp.op \in TeamOps /\ resp.status \in {200, 201, 204}
    /\ resp.token = create_access_token(2, 1)
    /\ resp.guard.member_type = "organization" /\ resp.guard.role = "admin"
    /\ resp.guard.org_type = organizations[1].organization_type

\* C5: every guarded request proceeds, with the resolved context, exactly
\* when has_permission(resolved role, resource, action, resolved org_type)
\* holds for the membership rows stored when the request arrives; otherwise
\* it is answered 403 (404 for a missing team) and no table changes.
C5_GuardDecides ==
    [][AuthenticatedTeamRequest(resp') =>
         LET u == CallerOf(resp')
             req == RequiredPermission(resp'.op) IN
         \E c \in get_team_member_context(u, resp'.team_id) :
            IF c.status = 200 /\ has_permission(c.role, req[1], req[2], c.org_type)
            THEN resp'.guard = c
            ELSE /\ resp'.status = 403
                 /\ resp'.guard.status = 403
                 /\ teams' = teams /\ team_members' = team_members]_vars

\* user 2 holds an active direct row of role member and was refused an invite
C5_Witness ==
    /\ resp.op = "add_user_to_team" /\ resp.status = 403
    /\ resp.token = create_access_token(2, 1)
    /\ resp.guard = Insufficient("team_member", "invite")
    /\ <<1, "user", 2>> \in DOMAIN team_members
    /\ team_members[<<1, "user", 2>>] = [role |-> "member", status |-> "active"]

\* C13: a direct TeamMember row that is not active gives no context, the
\* organization path gives one only when the organization's TeamMember row
\* and the user's OrganizationMember row are both active, and a caller who is
\* not the owner and has neither is answered 403 "not a member".
C13_OnlyActiveRowsGrantAccess ==
    /\ [](\A u \in DOMAIN users, t \in DOMAIN teams :
            \A c \in get_team_member_context(u, t) :
               /\ (c.status = 200 /\ c.member_type = "user") =>
                     team_members[<<t, "user", u>>].status = "active"
               /\ (c.status = 200 /\ c.member_type = "organization") =>
                     /\ team_members[<<t, "organization", c.organization>>].status
                           = "active"
                     /\ org_members[<<c.organization, u>>].status = "active"
               /\ (/\ teams[t].user_id # u
                   /\ \/ <<t, "user", u>> \notin DOMAIN team_members
                      \/ team_members[<<t, "user", u>>].status # "active"
                   /\ \A o \in DOMAIN organizations :
                         \/ <<t, "organization", o>> \notin DOMAIN team_members
                         \/ team_members[<<t, "organization", o>>].status # "active"
                         \/ <<o, u>> \notin DOMAIN org_members
                         \/ org_members[<<o, u>>].status # "active")
                  => c = NotAMember)
    /\ [][(AuthenticatedTeamRequest(resp') /\ resp'.guard.status = 200
             /\ resp'.guard.member_type # "owner") =>
            LET c == resp'.guard IN
            IF c.member_type = "user"
            THEN team_members[<<c.team_id, "user", c.user>>].status = "active"
            ELSE /\ team_members[<<c.team_id, "organization", c.organization>>].status
                       = "active"
                 /\ org_members[<<c.organization, c.user>>].status = "active"]_vars

\* user 2 was answered "not a member" while holding a direct row that is not
\* active and while organization 1, whose team row is an active admin row,
\* has user 2 as inactive member
C13_Witness ==
    /\ resp.op \in TeamOps /\ resp.status = 403 /\ resp.guard = NotAMember
    /\ resp.token = create_access_token(2, 1)
    /\ <<1, "user", 2>> \in DOMAIN team_members
    /\ team_members[<<1, "user", 2>>].status \in {"inactive", "pending"}
    /\ <<1, "organization", 1>> \in DOMAIN team_members
    /\ team_members[<<1, "organization", 1>>] = [role |-> "admin", status |-> "active"]
    /\ org_members[<<1, 2>>].status = "inactive"

(***************************************************************************)
(* Organization endpoints (app/api/endpoints/organizations.py), each       *)
(* request as one step.                                                    *)
(***************************************************************************)
OrganizationRole == {"admin", "member"}

OrgResp(op, tok, oid, uid, role, st, status) ==
    [op |-> op, token |-> tok, organization_id |-> oid, user_id |-> uid,
     role |-> role, new_status |-> st, status |-> status]

\* the admin_check query of the member endpoints
IsActiveAdmin(oid, uid) ==
    /\ <<oid, uid>> \in DOMAIN org_members
    /\ org_members[<<oid, uid>>].role = "admin"
    /\ org_members[<<oid, uid>>].status = "active"

\* the admin_count query of remove_organization_member
ActiveAdmins(oid) == {u \in DOMAIN users : IsActiveAdmin(oid, u)}

\* type_data is the class the request body was parsed into, or None
CreateOrganization(tok, org_type, type_data) ==
    LET cu == get_current_user(tok)
        oid == NextId(DOMAIN organizations) IN
    /\ IF cu.status # 200
       THEN /\ resp' = OrgResp("create_organization", tok, 0, 0, None, None, 401)
            /\ UNCHANGED <<organizations, org_members, type_records>>
       ELSE /\ Cardinality(DOMAIN organizations) < MaxOrgs
            /\ organizations' = InsertRow(organizations, oid,
                                   [organization_type |-> org_type, archived |-> FALSE])
            /\ type_records' =
                  IF type_data = org_type
                  THEN type_records \cup {[kind |-> org_type, organization_id |-> oid]}
                  ELSE type_records
            /\ org_members' = InsertRow(org_members, <<oid, cu.user_id>>,
                                        [role |-> "admin", status |-> "active"])
            /\ resp' = OrgResp("create_organization", tok, oid, cu.user_id, "admin",
                               "active", 201)
    /\ UNCHANGED <<users, teams, team_members, password_resets, issued, blacklist,
                   debug, procs,
                   rate_limits, now, admitted>>

AddOrganizationMember(tok, oid, user_id, role) ==
    LET cu == get_current_user(tok)
        R(status) == OrgResp("add_organization_member", tok, oid, user_id, role,
                             None, status) IN
    /\ IF cu.status # 200 THEN resp' = R(401) /\ UNCHANGED org_members
       ELSE IF ~IsActiveAdmin(oid, cu.user_id) THEN resp' = R(403) /\ UNCHANGED org_members
       ELSE IF oid \notin DOMAIN organizations THEN resp' = R(404) /\ UNCHANGED org_members
       ELSE IF user_id \notin DOMAIN users THEN resp' = R(404) /\ UNCHANGED org_members
       ELSE IF <<oid, user_id>> \in DOMAIN org_members
       THEN resp' = R(400) /\ UNCHANGED org_members
       ELSE /\ org_members' = InsertRow(org_members, <<oid, user_id>>,
                                        [role |-> role, status |-> "active"])
            /\ resp' = R(201)
    /\ UNCHANGED <<users, teams, team_members, organizations, type_records,
                   password_resets, issued, blacklist, debug, procs,
                   rate_limits, now, admitted>>

UpdateOrganizationMember(tok, oid, user_id, role, st) ==
    LET cu == get_current_user(tok)
        R(status) == OrgResp("update_organization_member", tok, oid, user_id, role,
                             st, status) IN
    /\ IF cu.status # 200 THEN resp' = R(401) /\ UNCHANGED org_members
       ELSE IF ~IsActiveAdmin(oid, cu.user_id) THEN resp' = R(403) /\ UNCHANGED org_members
       ELSE IF <<oid, user_id>> \notin DOMAIN org_members
       THEN resp' = R(404) /\ UNCHANGED org_members
       ELSE /\ org_members' = [org_members EXCEPT
                                 ![<<oid, user_id>>] = ApplyUpdate(@, role, st)]
            /\ resp' = R(200)
    /\ UNCHANGED <<users, teams, team_members, organizations, type_records,
                   password_resets, issued, blacklist, debug, procs,
                   rate_limits, now, admitted>>

RemoveOrganizationMember(tok, oid, user_id) ==
    LET cu == get_current_user(tok)
        R(status) == OrgResp("remove_organization_member", tok, oid, user_id, None,
                             None, status) IN
    /\ IF cu.status # 200 THEN resp' = R(401) /\ UNCHANGED org_members
       ELSE IF ~IsActiveAdmin(oid, cu.user_id) THEN resp' = R(403) /\ UNCHANGED org_members
       ELSE IF <<oid, user_id>> \notin DOMAIN org_members
       THEN resp' = R(404) /\ UNCHANGED org_members
       ELSE IF org_members[<<oid, user_id>>].role = "admin"
               /\ Cardinality(ActiveAdmins(oid)) <= 1
       THEN resp' = R(400) /\ UNCHANGED org_members
       ELSE /\ org_members' = DeleteRow(org_members, <<oid, user_id>>)
            /\ resp' = R(204)
    /\ UNCHANGED <<users, teams, team_members, organizations, type_records,
                   password_resets, issued, blacklist, debug, procs,
                   rate_limits, now, admitted>>

(***************************************************************************)
(* Organization specification: two registered users; organizations come    *)
(* into being only through create_organization.                            *)
(***************************************************************************)
\* (organization_type, class of type_data)
CreateInputs == {<<"provider", "provider">>, <<"client", None>>, <<"guest", "client">>}
\* member requests address organization 1 or an id no organization has
OrgRequestInputs == {1, 3}
OrgUpdateInputs == {<<r, None>> : r \in OrganizationRole}
                      \cup {<<None, st>> : st \in MemberStatus}

InitOrg ==
    /\ users = (1 :> User1 @@ 2 :> User2)
    /\ teams = (1 :> SharedTeam)
    /\ team_members = << >>
    /\ organizations = << >>
    /\ org_members = << >>
    /\ type_records = {}
    /\ password_resets = << >>
    /\ issued = TeamTokens
    /\ blacklist = {}
    /\ debug = FALSE
    /\ rate_limits = <<>>
    /\ now = 0
    /\ admitted = <<>>
    /\ procs = << >>
    /\ resp = NoResp

NextOrg ==
    \/ \E tok \in TeamTokens \cup {Garbage}, c \in CreateInputs :
          CreateOrganization(tok, c[1], c[2])
    \/ \E tok \in TeamTokens, o \in OrgRequestInputs, u \in UserIdInputs,
          r \in OrganizationRole : AddOrganizationMember(tok, o, u, r)
    \/ \E tok \in TeamTokens, o \in OrgRequestInputs, u \in DOMAIN users,
          upd \in OrgUpdateInputs : UpdateOrganizationMember(tok, o, u, upd[1], upd[2])
    \/ \E tok \in TeamTokens, o \in OrgRequestInputs, u \in DOMAIN users :
          RemoveOrganizationMember(tok, o, u)

SpecOrg == InitOrg /\ [][NextOrg]_vars

\* C6: every organization created through create_organization keeps at least
\* one member of role admin and status active, whatever member add, update
\* and remove requests follow.
C6_OrganizationKeepsActiveAdmin ==
    \A o \in DOMAIN organizations : ActiveAdmins(o) # {}

\* C7: a request by the only active admin of an organization to remove that
\* admin, or to change that admin's role to a non-admin one, is refused with
\* the Conflict-class status (400) and no membership row changes.
C7_LastAdminRequestRefused ==
    [][(/\ resp'.op \in {"remove_organization_member", "update_organization_member"}
        /\ get_current_user(resp'.token).status = 200
        /\ ActiveAdmins(resp'.organization_id) = {resp'.user_id}
        /\ IsActiveAdmin(resp'.organization_id, get_current_user(resp'.token).user_id)
        /\ \/ resp'.op = "remove_organization_member"
           \/ resp'.role = "member")
       => (resp'.status = 400 /\ org_members' = org_members)]_vars

(***************************************************************************)
(* Concurrent requests.  Every request runs on its own AsyncSession and    *)
(* transaction (get_db), under the database's default READ COMMITTED       *)
(* isolation: each awaited query reads the rows committed at that moment,  *)
(* each commit writes the values the request computed from what it read.   *)
(* procs[p] is the position of request p and what it holds in memory.      *)
(***************************************************************************)
Procs == {1, 2}
Idle == [pc |-> "idle"]
Done(pr, status) == [pr EXCEPT !.pc = "done", !.status = status]

\* ---- remove_organization_member, query by query ----
RemoveStart(p, tok, oid, user_id) ==
    LET cu == get_current_user(tok)
        pr == [op |-> "remove", pc |-> "admin_check", token |-> tok,
               caller |-> cu.user_id, organization_id |-> oid, target |-> user_id,
               member |-> None, status |-> 0] IN
    /\ procs[p].pc = "idle"
    /\ procs' = [procs EXCEPT ![p] = IF cu.status # 200 THEN Done(pr, 401) ELSE pr]
    /\ UNCHANGED <<users, teams, team_members, organizations, org_members,
                   type_records, password_resets, issued, blacklist, debug, resp,
                   rate_limits, now, admitted>>

RemoveAdminCheck(p) ==
    LET pr == procs[p] IN
    /\ pr.pc = "admin_check" /\ pr.op = "remove"
    /\ procs' = [procs EXCEPT ![p] =
                    IF ~IsActiveAdmin(pr.organization_id, pr.caller)
                    THEN Done(pr, 403)
                    ELSE [pr EXCEPT !.pc = "select_member"]]
    /\ UNCHANGED <<users, teams, team_members, organizations, org_members,
                   type_records, password_resets, issued, blacklist, debug, resp,
                   rate_limits, now, admitted>>

RemoveSelectMember(p) ==
    LET pr == procs[p]
        key == <<pr.organization_id, pr.target>> IN
    /\ pr.pc = "select_member" /\ pr.op = "remove"
    /\ procs' = [procs EXCEPT ![p] =
                    IF key \notin DOMAIN org_members THEN Done(pr, 404)
                    ELSE [pr EXCEPT !.member = org_members[key].role,
                                    !.pc = IF org_members[key].role = "admin"
                                           THEN "admin_count" ELSE "delete"]]
    /\ UNCHANGED <<users, teams, team_members, organizations, org_members,
                   type_records, password_resets, issued, blacklist, debug, resp,
                   rate_limits, now, admitted>>

RemoveAdminCount(p) ==
    LET pr == procs[p] IN
    /\ pr.pc = "admin_count"
    /\ procs' = [procs EXCEPT ![p] =
                    IF Cardinality(ActiveAdmins(pr.organization_id)) <= 1
                    THEN Done(pr, 400)
                    ELSE [pr EXCEPT !.pc = "delete"]]
    /\ UNCHANGED <<users, teams, team_members, organizations, org_members,
                   type_records, password_resets, issued, blacklist, debug, resp,
                   rate_limits, now, admitted>>

\* db.delete(member); db.commit(): a DELETE that matches no row any more
\* only warns
RemoveDelete(p) ==
    LET pr == procs[p]
        key == <<pr.organization_id, pr.target>> IN
    /\ pr.pc = "delete"
    /\ org_members' = IF key \in DOMAIN org_members
                      THEN DeleteRow(org_members, key) ELSE org_members
    /\ procs' = [procs EXCEPT ![p] = Done(pr, 204)]
    /\ UNCHANGED <<users, teams, team_members, organizations, type_records,
                   password_resets, issued, blacklist, debug, resp,
                   rate_limits, now, admitted>>

\* ---- update_organization_member, query by query ----
UpdateStart(p, tok, oid, user_id, role, st) ==
    LET cu == get_current_user(tok)
        pr == [op |-> "update", pc |-> "admin_check", token |-> tok,
               caller |-> cu.user_id, organization_id |-> oid, target |-> user_id,
               member |-> None, status |-> 0, role |-> role, new_status |-> st] IN
    /\ procs[p].pc = "idle"
    /\ procs' = [procs EXCEPT ![p] = IF cu.status # 200 THEN Done(pr, 401) ELSE pr]
    /\ UNCHANGED <<users, teams, team_members, organizations, org_members,
                   type_records, password_resets, issued, blacklist, debug, resp,
                   rate_limits, now, admitted>>

UpdateAdminCheck(p) ==
    LET pr == procs[p] IN
    /\ pr.pc = "admin_check" /\ pr.op = "update"
    /\ procs' = [procs EXCEPT ![p] =
                    IF ~IsActiveAdmin(pr.organization_id, pr.caller)
                    THEN Done(pr, 403)
                    ELSE [pr EXCEPT !.pc = "select_member"]]
    /\ UNCHANGED <<users, teams, team_members, organizations, org_members,
                   type_records, password_resets, issued, blacklist, debug, resp,
                   rate_limits, now, admitted>>

UpdateSelectMember(p) ==
    LET pr == procs[p]
        key == <<pr.organization_id, pr.target>> IN
    /\ pr.pc = "select_member" /\ pr.op = "update"
    /\ procs' = [procs EXCEPT ![p] =
                    IF key \notin DOMAIN org_members THEN Done(pr, 404)
                    ELSE [pr EXCEPT !.member = org_members[key], !.pc = "commit"]]
    /\ UNCHANGED <<users, teams, team_members, organizations, org_members,
                   type_records, password_resets, issued, blacklist, debug, resp,
                   rate_limits, now, admitted>>

\* setattr + db.commit(): the UPDATE carries the attributes whose value
\* differs from the loaded row; it raises StaleDataError when the row is gone
UpdateCommit(p) ==
    LET pr == procs[p]
        key == <<pr.organization_id, pr.target>>
        new == ApplyUpdate(pr.member, pr.role, pr.new_status) IN
    /\ pr.pc = "commit"
    /\ IF new = pr.member
       THEN /\ procs' = [procs EXCEPT ![p] = Done(pr, 200)]
            /\ UNCHANGED org_members
       ELSE IF key \notin DOMAIN org_members
       THEN /\ procs' = [procs EXCEPT ![p] = Done(pr, 500)]
            /\ UNCHANGED org_members
       ELSE /\ org_members' = [org_members EXCEPT ![key] =
                                 [role |-> IF new.role # pr.member.role
                                           THEN new.role ELSE @.role,
                                  status |-> IF new.status # pr.member.status
                                             THEN new.status ELSE @.status]]
            /\ procs' = [procs EXCEPT ![p] = Done(pr, 200)]
    /\ UNCHANGED <<users, teams, team_members, organizations, type_records,
                   password_resets, issued, blacklist, debug, resp,
                   rate_limits, now, admitted>>

(***************************************************************************)
(* Concurrent organization specification: organization 1, created by user  *)
(* 1 who then added user 2 as admin, and two requests in flight.           *)
(***************************************************************************)
InitOrgConc ==
    /\ users = (1 :> User1 @@ 2 :> User2)
    /\ teams = (1 :> SharedTeam)
    /\ team_members = << >>
    /\ organizations = (1 :> [organization_type |-> "client", archived |-> FALSE])
    /\ org_members = (<<1, 1>> :> [role |-> "admin", status |-> "active"]
                        @@ <<1, 2>> :> [role |-> "admin", status |-> "active"])
    /\ type_records = {}
    /\ password_resets = << >>
    /\ issued = TeamTokens
    /\ blacklist = {}
    /\ debug = FALSE
    /\ rate_limits = <<>>
    /\ now = 0
    /\ admitted = <<>>
    /\ procs = [p \in Procs |-> Idle]
    /\ resp = NoResp

NextOrgConc ==
    \/ \E p \in Procs, tok \in TeamTokens \cup {Garbage}, u \in DOMAIN users :
          RemoveStart(p, tok, 1, u)
    \/ \E p \in Procs : RemoveAdminCheck(p)
    \/ \E p \in Procs : RemoveSelectMember(p)
    \/ \E p \in Procs : RemoveAdminCount(p)
    \/ \E p \in Procs : RemoveDelete(p)
    \/ \E p \in Procs, tok \in TeamTokens, u \in DOMAIN users :
          UpdateStart(p, tok, 1, u, "member", None)
    \/ \E p \in Procs : UpdateAdminCheck(p)
    \/ \E p \in Procs : UpdateSelectMember(p)
    \/ \E p \in Procs : UpdateCommit(p)

SpecOrgConc == InitOrgConc /\ [][NextOrgConc]_vars

\* C9: when two concurrent requests each remove a different one of the two
\* remaining active admins of an organization, they do not both succeed and
\* at least one active admin remains once both have answered.
C9_ConcurrentRemovalsKeepAnAdmin ==
    (/\ \A p \in Procs : procs[p].pc = "done" /\ procs[p].op = "remove"
     /\ procs[1].target # procs[2].target)
    => /\ ActiveAdmins(1) # {}
       /\ ~(procs[1].status = 204 /\ procs[2].status = 204)

\* ---- forgot_password_confirm, query by query ----
\* bearer check, jwt.decode, scope check and the SELECT of the user
ConfirmLoadUser(p, tok, new_password) ==
    LET pr == [op |-> "confirm", pc |-> "commit_user", token |-> tok,
               new_password |-> new_password, user_id |-> 0, token_version |-> 0,
               reset |-> 0, status |-> 0]
        uid == IntOfStr(tok.sub) IN
    /\ procs[p].pc = "idle"
    /\ procs' = [procs EXCEPT ![p] =
                    IF ~JwtDecodes(tok) \/ tok.scope # "pwd_reset"
                       \/ uid \notin DOMAIN users
                    THEN Done(pr, 401)
                    ELSE [pr EXCEPT !.user_id = uid,
                                    !.token_version = users[uid].token_version]]
    /\ UNCHANGED <<users, teams, team_members, organizations, org_members,
                   type_records, password_resets, issued, blacklist, debug, resp,
                   rate_limits, now, admitted>>

\* user.password = ...; user.token_version = (user.token_version or 1) + 1;
\* db.commit(): the UPDATE writes the number computed from the loaded row
ConfirmCommitUser(p) ==
    LET pr == procs[p] IN
    /\ pr.pc = "commit_user"
    /\ users' = [users EXCEPT
                   ![pr.user_id].password = get_password_hash(pr.new_password),
                   ![pr.user_id].token_version = TokenVersionOr1(pr.token_version) + 1]
    /\ procs' = [procs EXCEPT ![p].pc = "select_reset"]
    /\ UNCHANGED <<teams, team_members, organizations, org_members, type_records,
                   password_resets, issued, blacklist, debug, resp,
                   rate_limits, now, admitted>>

ConfirmSelectReset(p) ==
    LET pr == procs[p]
        open == UnconsumedOf(password_resets, pr.user_id) IN
    /\ pr.pc = "select_reset"
    /\ procs' = [procs EXCEPT ![p] =
                    IF Cardinality(open) > 1 THEN Done(pr, 500)
                    ELSE IF open = {} THEN Done(pr, 204)
                    ELSE [pr EXCEPT !.reset = Max(open), !.pc = "commit_reset"]]
    /\ UNCHANGED <<users, teams, team_members, organizations, org_members,
                   type_records, password_resets, issued, blacklist, debug, resp,
                   rate_limits, now, admitted>>

ConfirmCommitReset(p) ==
    LET pr == procs[p] IN
    /\ pr.pc = "commit_reset"
    /\ password_resets' = [password_resets EXCEPT ![pr.reset].consumed = TRUE]
    /\ procs' = [procs EXCEPT ![p] = Done(pr, 204)]
    /\ UNCHANGED <<users, teams, team_members, organizations, org_members,
                   type_records, issued, blacklist, debug, resp,
                   rate_limits, now, admitted>>

(***************************************************************************)
(* Concurrent confirmation specification: user 1 holds a reset session     *)
(* issued by forgot-password/verify and a login token; two confirmations   *)
(* are in flight.                                                          *)
(***************************************************************************)
InitConfirmConc ==
    /\ users = (1 :> User1)
    /\ teams = (1 :> Team1)
    /\ team_members = << >>
    /\ organizations = << >>
    /\ org_members = << >>
    /\ type_records = {}
    /\ password_resets = (1 :> IssuedReset1)
    /\ issued = {create_access_token(1, 1), create_reset_session_token(1, 1)}
    /\ blacklist = {}
    /\ debug \in BOOLEAN
    /\ rate_limits = <<>>
    /\ now = 0
    /\ admitted = <<>>
    /\ procs = [p \in Procs |-> Idle]
    /\ resp = NoResp

NextConfirmConc ==
    \/ \E p \in Procs, tok \in issued \cup {Garbage}, pw \in Passwords :
          ConfirmLoadUser(p, tok, pw)
    \/ \E p \in Procs : ConfirmCommitUser(p)
    \/ \E p \in Procs : ConfirmSelectReset(p)
    \/ \E p \in Procs : ConfirmCommitReset(p)

SpecConfirmConc == InitConfirmConc /\ [][NextConfirmConc]_vars

\* C8: once two concurrent confirmations for user 1 have both answered 204,
\* token_version is exactly two above its value before them (1) and neither
\* bearer token they used passes get_current_user.
C8_ConcurrentConfirmsCountTwice ==
    (\A p \in Procs : procs[p].pc = "done" /\ procs[p].status = 204)
    => /\ users[1].token_version = 1 + 2
       /\ \A p \in Procs : get_current_user(procs[p].token).status = 401

(***************************************************************************)
(* Team lifecycle: create_team, delete_team and the require_team_owner     *)
(* dependency (app/api/dependencies.py:222-256).                           *)
(***************************************************************************)
MaxTeams == 3       \* teams in the team lifecycle specification

OwnerDenied == [status |-> 403,
                detail |-> "Team not found or you don't have permission"]

\* select(Team).filter(Team.id == team_id, Team.user_id == current_user.id)
require_team_owner(uid, tid) ==
    IF tid \in DOMAIN teams /\ teams[tid].user_id = uid
    THEN [status |-> 200, team_id |-> tid, user |-> uid]
    ELSE OwnerDenied

\* a request whose handler depends on require_team_owner and does nothing else
RequireTeamOwner(tok, tid) ==
    LET cu == get_current_user(tok)
        g == IF cu.status # 200 THEN CredentialsException
             ELSE require_team_owner(cu.user_id, tid) IN
    /\ resp' = TeamResp("require_team_owner", tok, tid, g.status, g)
    /\ UNCHANGED <<users, teams, team_members, organizations, org_members,
                   type_records, password_resets, issued, blacklist, debug, procs,
                   rate_limits, now, admitted>>

CreateTeam(tok, name, personal_team) ==
    LET cu == get_current_user(tok)
        tid == NextId(DOMAIN teams) IN
    /\ IF cu.status # 200
       THEN /\ resp' = TeamResp("create_team", tok, 0, 401, CredentialsException)
            /\ UNCHANGED teams
       ELSE /\ Cardinality(DOMAIN teams) < MaxTeams
            /\ teams' = InsertRow(teams, tid,
                           [user_id |-> cu.user_id, name |-> name,
                            personal_team |-> personal_team, archived |-> FALSE,
                            archived_at |-> None])
            /\ resp' = TeamResp("create_team", tok, tid, 201, cu)
    /\ UNCHANGED <<users, team_members, organizations, org_members, type_records,
                   password_resets, issued, blacklist, debug, procs,
                   rate_limits, now, admitted>>

(***************************************************************************)
(* Team lifecycle specification: users 1 and 2 as register left them, each *)
(* owning a personal team.                                                 *)
(***************************************************************************)
Team2 == [user_id |-> 2, name |-> "Time de", personal_team |-> TRUE,
          archived |-> FALSE, archived_at |-> None]
\* team ids the requests address: both personal teams, the first created
\* team and an id no team has
TeamRequestInputs == {1, 2, 3, 9}

InitTeamLife ==
    /\ users = (1 :> User1 @@ 2 :> User2)
    /\ teams = (1 :> Team1 @@ 2 :> Team2)
    /\ team_members = << >>
    /\ organizations = << >>
    /\ org_members = << >>
    /\ type_records = {}
    /\ password_resets = << >>
    /\ issued = TeamTokens
    /\ blacklist = {}
    /\ debug = FALSE
    /\ rate_limits = <<>>
    /\ now = 0
    /\ admitted = <<>>
    /\ procs = << >>
    /\ resp = NoResp

NextTeamLife ==
    \/ \E tok \in TeamTokens \cup {Garbage}, pt \in BOOLEAN : CreateTeam(tok, "Team", pt)
    \/ \E tok \in TeamTokens \cup {Garbage}, tid \in TeamRequestInputs :
          DeleteTeam(tok, tid)
    \/ \E tok \in TeamTokens \cup {Garbage}, tid \in TeamRequestInputs :
          RequireTeamOwner(tok, tid)
    \/ \E tok \in TeamTokens, tid \in {1, 3}, r \in {"admin", "viewer"} :
          AddUserToTeam(tok, tid, 2, r)

SpecTeamLife == InitTeamLife /\ [][NextTeamLife]_vars

\* C14: a team guard answers 404 when the team id does not exist and never
\* 404 when it exists (a denied caller of an existing team gets 403).
C14_NotFoundAndForbiddenDistinct ==
    (/\ resp.op \in TeamOps \cup {"require_team_owner"}
     /\ get_current_user(resp.token).status = 200)
    => /\ resp.team_id \notin DOMAIN teams => resp.guard.status = 404
       /\ resp.team_id \in DOMAIN teams => resp.guard.status \in {200, 403}

\* C15: no personal team is ever archived, and a delete request against a
\* personal team never succeeds, whoever sends it, and changes no team row.
C15_PersonalTeamNeverArchived ==
    /\ [](\A t \in DOMAIN teams :
            teams[t].personal_team =>
               (~teams[t].archived /\ teams[t].archived_at = None))
    /\ [][(/\ resp'.op = "delete_team"
           /\ resp'.team_id \in DOMAIN teams
           /\ teams[resp'.team_id].personal_team)
          => (resp'.status \in {400, 401, 403} /\ teams' = teams)]_vars

\* the delete of a personal team passed the guard (its owner, or another user
\* holding an admin row in it, asked) and was refused with 400
C15_Witness ==
    /\ resp.op = "delete_team" /\ resp.status = 400
    /\ resp.guard.status = 200 /\ resp.guard.role = "admin"
    /\ teams[resp.team_id].personal_team /\ ~teams[resp.team_id].archived

\* C16: require_team_owner does not let a request on a personal team pass,
\* the team's owner included.
C16_OwnerGuardRefusesPersonalTeam ==
    (/\ resp.op = "require_team_owner"
     /\ resp.team_id \in DOMAIN teams
     /\ teams[resp.team_id].personal_team)
    => resp.status # 200

(***************************************************************************)
(* Permission matrix specification: has_permission is asked about every    *)
(* role, resource, action and optional organization type.                  *)
(***************************************************************************)
CheckPermission(role, resource, action, org_type) ==
    /\ resp' = [op |-> "has_permission", status |-> 200, role |-> role,
                resource |-> resource, action |-> action, org_type |-> org_type,
                result |-> has_permission(role, resource, action, org_type)]
    /\ UNCHANGED <<users, teams, team_members, organizations, org_members,
                   type_records, password_resets, issued, blacklist, debug, procs,
                   rate_limits, now, admitted>>

InitMatrix ==
    /\ users = << >>
    /\ teams = << >>
    /\ team_members = << >>
    /\ organizations = << >>
    /\ org_members = << >>
    /\ type_records = {}
    /\ password_resets = << >>
    /\ issued = {}
    /\ blacklist = {}
    /\ debug = FALSE
    /\ rate_limits = <<>>
    /\ now = 0
    /\ admitted = <<>>
    /\ procs = << >>
    /\ resp = NoResp

NextMatrix ==
    \E role \in TeamRole, resource \in Resource, action \in Action,
       org_type \in OrganizationType \cup {None} :
          CheckPermission(role, resource, action, org_type)

SpecMatrix == InitMatrix /\ [][NextMatrix]_vars

\* C17: without org_type, whatever has_permission grants to viewer it grants
\* to member, and whatever it grants to member it grants to admin.
C17_RolesAreMonotone ==
    (resp.op = "has_permission" /\ resp.org_type = None /\ resp.result) =>
        /\ resp.role = "viewer" =>
              has_permission("member", resp.resource, resp.action, None)
        /\ resp.role \in {"viewer", "member"} =>
              has_permission("admin", resp.resource, resp.action, None)

\* member was granted (project, update) without org_type
C17_Witness ==
    /\ resp.op = "has_permission" /\ resp.org_type = None /\ resp.result
    /\ resp.role = "member" /\ resp.resource = "project" /\ resp.action = "update"

\* C18: whatever has_permission grants a role without org_type it grants the
\* same role with every organization type.
C18_OverlayOnlyAdds ==
    (resp.op = "has_permission" /\ resp.org_type = None /\ resp.result) =>
        \A ot \in OrganizationType :
           has_permission(resp.role, resp.resource, resp.action, ot)

\* admin was granted (team, delete), which no organization type lists
C18_Witness ==
    /\ resp.op = "has_permission" /\ resp.org_type = None /\ resp.result
    /\ resp.role = "admin" /\ resp.resource = "team" /\ resp.action = "delete"
    /\ \A ot \in OrganizationType : <<"team", "delete">> \notin ORG_TYPE_PERMISSIONS(ot)

\* C19: has_permission(viewer, service, create, org_type=provider) is false.
C19_ProviderViewerCannotCreateService ==
    (/\ resp.op = "has_permission" /\ resp.role = "viewer"
     /\ resp.resource = "service" /\ resp.action = "create"
     /\ resp.org_type = "provider")
    => ~resp.result

(***************************************************************************)
(* Rate-limited steps of the password reset: /forgot-password/start and    *)
(* /forgot-password/verify (app/api/endpoints/auth.py).  Each handler      *)
(* first calls allow(), then awaits the database, so a request is two      *)
(* steps and the requests of several clients interleave between them.      *)
(***************************************************************************)
MaxTicks == 2       \* the clock advances this many times
MaxOver == 1        \* requests counted beyond a ceiling before a key goes quiet
MaxResets == 2      \* a known email asks for a code while fewer rows than this exist

\* the arguments of the two calls of allow()
StartMaxAttempts == 5
VerifyMaxAttempts == 10
WindowSec == 900

\* app.helpers.rate_limit.allow: an atomic increment of the counter of
\* <<action, email, client_ip>>; the first increment creates the key with a
\* TTL of window_sec, and the call is admitted while the count stays within
\* max_attempts.  Returns the verdict and the counters after the call.
RateKey(action, email, client_ip) == <<action, email, client_ip>>
Live(limits, key, t) == key \in DOMAIN limits /\ limits[key].expires_at > t
allow(limits, t, action, email, client_ip, max_attempts, window_sec) ==
    LET key == RateKey(action, email, client_ip)
        counter == IF Live(limits, key, t)
                   THEN [limits[key] EXCEPT !.count = @ + 1]
                   ELSE [count |-> 1, created_at |-> t, expires_at |-> t + window_sec]
    IN [ok |-> counter.count <= max_attempts,
        limits |-> (key :> counter) @@ limits]

\* the history of admitted requests gains the time of this one
Admit(key) ==
    admitted' = (key :> Append(IF key \in DOMAIN admitted THEN admitted[key] ELSE <<>>, now))
                @@ admitted

\* the counter still has room below max_attempts + MaxOver
Countable(key, max_attempts) ==
    Live(rate_limits, key, now) => rate_limits[key].count < max_attempts + MaxOver

hash_otp(otp) == <<"bcrypt", otp>>
verify_otp(otp, digest) == digest = <<"bcrypt", otp>>
verify_totp(secret, code) == code = <<"totp", secret>>
Otps == {"123456", "000000"}
ClientIps == {"10.0.0.1"}

RateResp(op, email, client_ip, status, detail) ==
    [op |-> op, status |-> status, detail |-> detail, email |-> email,
     client_ip |-> client_ip]

\* forgot_password_start up to its first await: the limiter, and 429 when
\* it refuses
StartAllow_Unlimited(p, email, client_ip) ==
    LET key == RateKey("fp:start", email, client_ip)
        a == allow(rate_limits, now, "fp:start", email, client_ip, StartMaxAttempts, WindowSec) IN
    /\ procs[p] = Idle
    /\ Countable(key, StartMaxAttempts)
    /\ rate_limits' = a.limits
    /\ Admit(key)
    /\ procs' = [procs EXCEPT ![p] = [pc |-> "start_db", email |-> email,
                                      client_ip |-> client_ip]]
    /\ UNCHANGED <<users, teams, team_members, organizations, org_members,
                   type_records, password_resets, issued, blacklist, debug, resp, now>>

StartAllow(p, email, client_ip) ==
    LET key == RateKey("fp:start", email, client_ip)
        a == allow(rate_limits, now, "fp:start", email, client_ip, StartMaxAttempts, WindowSec) IN
    /\ procs[p] = Idle
    /\ Countable(key, StartMaxAttempts)
    /\ rate_limits' = a.limits
    /\ IF ~a.ok
       THEN /\ resp' = RateResp("forgot_password_start", email, client_ip, 429,
                                  "Too many requests")
            /\ UNCHANGED <<procs, admitted>>
       ELSE /\ Admit(key)
            /\ procs' = [procs EXCEPT ![p] = [pc |-> "start_db", email |-> email,
                                              client_ip |-> client_ip]]
            /\ UNCHANGED resp
    /\ UNCHANGED <<users, teams, team_members, organizations, org_members,
                   type_records, password_resets, issued, blacklist, debug, now>>

StartCommit_RevealsUnknown(p) ==
    LET pr == procs[p]
        found == UserByEmail(pr.email)
        uid == CHOOSE u \in found : TRUE IN
    /\ pr.pc = "start_db"
    /\ IF found # {}
       THEN \E otp \in Otps :
              password_resets' = Append(password_resets,
                  [user_id |-> uid, email |-> pr.email, otp_hash |-> hash_otp(otp),
                   otp_expires_at |-> now + 10 * 60, otp_verified |-> FALSE,
                   require_totp |-> users[uid].two_factor_enabled,
                   totp_verified |-> FALSE, reset_session_issued |-> FALSE,
                   consumed |-> FALSE, attempts |-> 0])
       ELSE UNCHANGED password_resets
    /\ resp' = IF found # {}
               THEN RateResp("forgot_password_start", pr.email, pr.client_ip, 202,
                             "If the email exists, a verification code has been sent.")
               ELSE RateResp("forgot_password_start", pr.email, pr.client_ip, 404,
                             "User not found")
    /\ procs' = [procs EXCEPT ![p] = Idle]
    /\ UNCHANGED <<users, teams, team_members, organizations, org_members,
                   type_records, issued, blacklist, debug, rate_limits, now, admitted>>

\* the rest of forgot_password_start: a PasswordReset row for a known email,
\* the same 202 either way
StartCommit(p) ==
    LET pr == procs[p]
        found == UserByEmail(pr.email)
        uid == CHOOSE u \in found : TRUE IN
    /\ pr.pc = "start_db"
    /\ IF found # {}
       THEN \E otp \in Otps :
              password_resets' = Append(password_resets,
                  [user_id |-> uid, email |-> pr.email, otp_hash |-> hash_otp(otp),
                   otp_expires_at |-> now + 10 * 60, otp_verified |-> FALSE,
                   require_totp |-> users[uid].two_factor_enabled,
                   totp_verified |-> FALSE, reset_session_issued |-> FALSE,
                   consumed |-> FALSE, attempts |-> 0])
       ELSE UNCHANGED password_resets
    /\ resp' = RateResp("forgot_password_start", pr.email, pr.client_ip, 202,
                        "If the email exists, a verification code has been sent.")
    /\ procs' = [procs EXCEPT ![p] = Idle]
    /\ UNCHANGED <<users, teams, team_members, organizations, org_members,
                   type_records, issued, blacklist, debug, rate_limits, now, admitted>>

\* forgot_password_verify up to its first await
VerifyAllow(p, email, client_ip, otp, totp) ==
    LET key == RateKey("fp:verify", email, client_ip)
        a == allow(rate_limits, now, "fp:verify", email, client_ip, VerifyMaxAttempts, WindowSec) IN
    /\ procs[p] = Idle
    /\ Countable(key, VerifyMaxAttempts)
    /\ rate_limits' = a.limits
    /\ IF ~a.ok
       THEN /\ resp' = RateResp("forgot_password_verify", email, client_ip, 429,
                                  "Too many attempts")
            /\ UNCHANGED <<procs, admitted>>
       ELSE /\ Admit(key)
            /\ procs' = [procs EXCEPT ![p] = [pc |-> "verify_db", email |-> email,
                                              client_ip |-> client_ip, otp |-> otp,
                                              totp |-> totp]]
            /\ UNCHANGED resp
    /\ UNCHANGED <<users, teams, team_members, organizations, org_members,
                   type_records, password_resets, issued, blacklist, debug, now>>

VerifyCommit_ExpiredSaysSo(p) ==
    LET pr == procs[p]
        R(status, detail) ==
            [otp |-> pr.otp, totp |-> pr.totp]
            @@ RateResp("forgot_password_verify", pr.email, pr.client_ip, status, detail)
        InvalidCode == R(400, "Invalid or expired code")
        open == {i \in DOMAIN password_resets :
                    password_resets[i].email = pr.email /\ ~password_resets[i].consumed}
    IN
    /\ pr.pc = "verify_db"
    /\ procs' = [procs EXCEPT ![p] = Idle]
    /\ IF Cardinality(open) > 1
       THEN \* scalar_one_or_none(): MultipleResultsFound
            resp' = R(500, "Internal Server Error") /\ UNCHANGED <<password_resets, issued>>
       ELSE IF open = {}
       THEN resp' = InvalidCode /\ UNCHANGED <<password_resets, issued>>
       ELSE IF \E i \in open : password_resets[i].otp_expires_at < now
       THEN resp' = R(400, "Code expired") /\ UNCHANGED <<password_resets, issued>>
       ELSE LET i == CHOOSE j \in open : TRUE
                row == password_resets[i]
                known == row.user_id \in DOMAIN users IN
            IF pr.otp = None \/ ~verify_otp(pr.otp, row.otp_hash)
            THEN /\ password_resets' = [password_resets EXCEPT ![i].attempts = @ + 1]
                 /\ resp' = InvalidCode
                 /\ UNCHANGED issued
            ELSE IF row.require_totp
                    /\ (\/ ~known
                        \/ users[row.user_id].two_factor_secret = None
                        \/ pr.totp = None
                        \/ ~verify_totp(users[row.user_id].two_factor_secret, pr.totp))
            THEN /\ password_resets' = [password_resets EXCEPT ![i].attempts = @ + 1,
                                                               ![i].otp_verified = TRUE]
                 /\ resp' = R(400, "Invalid or missing authenticator code")
                 /\ UNCHANGED issued
            ELSE /\ password_resets' =
                        [password_resets EXCEPT ![i].otp_verified = TRUE,
                                                ![i].totp_verified = row.require_totp,
                                                ![i].reset_session_issued = TRUE]
                 /\ IF known
                    THEN LET rst == create_reset_session_token(
                                        row.user_id, users[row.user_id].token_version) IN
                         /\ issued' = issued \union {rst}
                         /\ resp' = [reset_session_token |-> rst] @@ R(200, None)
                    ELSE resp' = R(500, "Internal Server Error") /\ UNCHANGED issued
    /\ UNCHANGED <<users, teams, team_members, organizations, org_members,
                   type_records, blacklist, debug, rate_limits, now, admitted>>

VerifyCommit_SkipsTotp(p) ==
    LET pr == procs[p]
        R(status, detail) ==
            [otp |-> pr.otp, totp |-> pr.totp]
            @@ RateResp("forgot_password_verify", pr.email, pr.client_ip, status, detail)
        InvalidCode == R(400, "Invalid or expired code")
        open == {i \in DOMAIN password_resets :
                    password_resets[i].email = pr.email /\ ~password_resets[i].consumed}
    IN
    /\ pr.pc = "verify_db"
    /\ procs' = [procs EXCEPT ![p] = Idle]
    /\ IF Cardinality(open) > 1
       THEN \* scalar_one_or_none(): MultipleResultsFound
            resp' = R(500, "Internal Server Error") /\ UNCHANGED <<password_resets, issued>>
       ELSE IF open = {} \/ (\E i \in open : password_resets[i].otp_expires_at < now)
       THEN resp' = InvalidCode /\ UNCHANGED <<password_resets, issued>>
       ELSE LET i == CHOOSE j \in open : TRUE
                row == password_resets[i]
                known == row.user_id \in DOMAIN users IN
            IF pr.otp = None \/ ~verify_otp(pr.otp, row.otp_hash)
            THEN /\ password_resets' = [password_resets EXCEPT ![i].attempts = @ + 1]
                 /\ resp' = InvalidCode
                 /\ UNCHANGED issued
            ELSE IF row.require_totp /\ FALSE
                    /\ (\/ ~known
                        \/ users[row.user_id].two_factor_secret = None
                        \/ pr.totp = None
                        \/ ~verify_totp(users[row.user_id].two_factor_secret, pr.totp))
            THEN /\ password_resets' = [password_resets EXCEPT ![i].attempts = @ + 1,
                                                               ![i].otp_verified = TRUE]
                 /\ resp' = R(400, "Invalid or missing authenticator code")
                 /\ UNCHANGED issued
            ELSE /\ password_resets' =
                        [password_resets EXCEPT ![i].otp_verified = TRUE,
                                                ![i].totp_verified = row.require_totp,
                                                ![i].reset_session_issued = TRUE]
                 /\ IF known
                    THEN LET rst == create_reset_session_token(
                                        row.user_id, users[row.user_id].token_version) IN
                         /\ issued' = issued \union {rst}
                         /\ resp' = [reset_session_token |-> rst] @@ R(200, None)
                    ELSE resp' = R(500, "Internal Server Error") /\ UNCHANGED issued
    /\ UNCHANGED <<users, teams, team_members, organizations, org_members,
                   type_records, blacklist, debug, rate_limits, now, admitted>>

\* the rest of forgot_password_verify
VerifyCommit(p) ==
    LET pr == procs[p]
        R(status, detail) ==
            [otp |-> pr.otp, totp |-> pr.totp]
            @@ RateResp("forgot_password_verify", pr.email, pr.client_ip, status, detail)
        InvalidCode == R(400, "Invalid or expired code")
        open == {i \in DOMAIN password_resets :
                    password_resets[i].email = pr.email /\ ~password_resets[i].consumed}
    IN
    /\ pr.pc = "verify_db"
    /\ procs' = [procs EXCEPT ![p] = Idle]
    /\ IF Cardinality(open) > 1
       THEN \* scalar_one_or_none(): MultipleResultsFound
            resp' = R(500, "Internal Server Error") /\ UNCHANGED <<password_resets, issued>>
       ELSE IF open = {} \/ (\E i \in open : password_resets[i].otp_expires_at < now)
       THEN resp' = InvalidCode /\ UNCHANGED <<password_resets, issued>>
       ELSE LET i == CHOOSE j \in open : TRUE
                row == password_resets[i]
                known == row.user_id \in DOMAIN users IN
            IF pr.otp = None \/ ~verify_otp(pr.otp, row.otp_hash)
            THEN /\ password_resets' = [password_resets EXCEPT ![i].attempts = @ + 1]
                 /\ resp' = InvalidCode
                 /\ UNCHANGED issued
            ELSE IF row.require_totp
                    /\ (\/ ~known
                        \/ users[row.user_id].two_factor_secret = None
                        \/ pr.totp = None
                        \/ ~verify_totp(users[row.user_id].two_factor_secret, pr.totp))
            THEN /\ password_resets' = [password_resets EXCEPT ![i].attempts = @ + 1,
                                                               ![i].otp_verified = TRUE]
                 /\ resp' = R(400, "Invalid or missing authenticator code")
                 /\ UNCHANGED issued
            ELSE /\ password_resets' =
                        [password_resets EXCEPT ![i].otp_verified = TRUE,
                                                ![i].totp_verified = row.require_totp,
                                                ![i].reset_session_issued = TRUE]
                 /\ IF known
                    THEN LET rst == create_reset_session_token(
                                        row.user_id, users[row.user_id].token_version) IN
                         /\ issued' = issued \union {rst}
                         /\ resp' = [reset_session_token |-> rst] @@ R(200, None)
                    ELSE resp' = R(500, "Internal Server Error") /\ UNCHANGED issued
    /\ UNCHANGED <<users, teams, team_members, organizations, org_members,
                   type_records, blacklist, debug, rate_limits, now, admitted>>

\* time passes: the keys whose TTL has run out are gone, and the history
\* keeps the admitted requests of the last window_sec seconds
Tick ==
    LET t == now + (WindowSec \div 2) IN
    /\ now < MaxTicks * (WindowSec \div 2)
    /\ now' = t
    /\ rate_limits' = [key \in {k \in DOMAIN rate_limits : rate_limits[k].expires_at > t}
                         |-> rate_limits[key]]
    /\ admitted' = [key \in DOMAIN admitted |->
                      SelectSeq(admitted[key], LAMBDA at : at > t - WindowSec)]
    /\ UNCHANGED <<users, teams, team_members, organizations, org_members,
                   type_records, password_resets, issued, blacklist, debug, procs, resp>>

\* A reset of user 1 whose code has been sent and not yet verified
OpenReset1 == [IssuedReset1 EXCEPT !.otp_verified = FALSE, !.reset_session_issued = FALSE]

StartEmails == {"a@x.com", "b@x.com"}
VerifyEmails == {"a@x.com"}

\* the clients of a behaviour press one of the two endpoints
Flooding(action) == \A key \in DOMAIN admitted : key[1] = action

InitRate ==
    /\ users = (1 :> User1)
    /\ teams = (1 :> Team1)
    /\ team_members = << >>
    /\ organizations = << >>
    /\ org_members = << >>
    /\ type_records = {}
    /\ password_resets = <<OpenReset1>>
    /\ issued = {}
    /\ blacklist = {}
    /\ debug = FALSE
    /\ rate_limits = << >>
    /\ now = 0
    /\ admitted = << >>
    /\ procs = [p \in Procs |-> Idle]
    /\ resp = NoResp

NextRate ==
    \/ \E p \in Procs, email \in StartEmails, ip \in ClientIps :
         /\ Flooding("fp:start")
         /\ UserByEmail(email) # {} => Len(password_resets) < MaxResets
         /\ StartAllow(p, email, ip)
    \/ \E p \in Procs : StartCommit(p)
    \/ \E p \in Procs, email \in VerifyEmails, ip \in ClientIps, otp \in Otps :
         /\ Flooding("fp:verify")
         /\ VerifyAllow(p, email, ip, otp, None)
    \/ \E p \in Procs : VerifyCommit(p)
    \/ Tick

SpecRate == InitRate /\ [][NextRate]_vars

\* the ceiling of an operation's limiter
Ceiling(action) == IF action = "fp:start" THEN StartMaxAttempts ELSE VerifyMaxAttempts

\* the number of requests of a key admitted at a time t with from <= t < to
AdmittedIn(key, from, to) ==
    IF key \notin DOMAIN admitted THEN 0
    ELSE Cardinality({i \in DOMAIN admitted[key] :
                        from <= admitted[key][i] /\ admitted[key][i] < to})

\* a request for the key is answered in this step by the limiter
Counted(key) ==
    /\ key \in DOMAIN rate_limits'
    /\ key \notin DOMAIN rate_limits \/ rate_limits'[key] # rate_limits[key]

MaxCalls == 2       \* calls of one endpoint for one (email, client_ip)

TotpSecret == "JBSWY3DP"
TwoFactorUser == [User2 EXCEPT !.email = "c@x.com", !.two_factor_enabled = TRUE,
                               !.two_factor_secret = TotpSecret]
ResetEmails == {"a@x.com", "b@x.com", "c@x.com"}
Totps == {None, <<"totp", TotpSecret>>, <<"totp", "other">>}

\* every counted request so far was made for this email
Subject(email) == \A key \in DOMAIN admitted : key[2] = email
\* the endpoint has been called fewer than MaxCalls times for the key
FewCalls(key) == key \in DOMAIN rate_limits => rate_limits[key].count < MaxCalls

\* a reset of user 2, who has two-factor authentication, sent and not yet verified
OpenReset2 == [OpenReset1 EXCEPT !.user_id = 2, !.email = "c@x.com", !.require_totp = TRUE]

\* either no reset has been started, or one was started at time 0 (its code
\* expires after 600 s) and the clock shows 0 s or 900 s
InitReset ==
    /\ users = (1 :> User1 @@ 2 :> TwoFactorUser)
    /\ teams = (1 :> Team1 @@ 2 :> [Team1 EXCEPT !.user_id = 2])
    /\ team_members = << >>
    /\ organizations = << >>
    /\ org_members = << >>
    /\ type_records = {}
    /\ \/ password_resets = << >> /\ now = 0
       \/ password_resets \in {<<OpenReset1>>, <<OpenReset2>>} /\ now \in {0, WindowSec}
    /\ issued = {}
    /\ blacklist = {}
    /\ debug = FALSE
    /\ rate_limits = << >>
    /\ admitted = << >>
    /\ procs = [p \in Procs |-> Idle]
    /\ resp = NoResp

NextReset ==
    \/ \E e \in Emails : Login(e, "Secret1!")
    \/ \E email \in ResetEmails, ip \in ClientIps :
         /\ Subject(email)
         /\ FewCalls(RateKey("fp:start", email, ip))
         /\ Len(password_resets) < MaxResets
         /\ StartAllow(1, email, ip)
    \/ StartCommit(1)
    \/ \E email \in ResetEmails, ip \in ClientIps, otp \in Otps, totp \in Totps :
         /\ Subject(email)
         /\ FewCalls(RateKey("fp:verify", email, ip))
         /\ VerifyAllow(1, email, ip, otp, totp)
    \/ VerifyCommit(1)
    \/ \E tok \in issued \cup {Garbage} : ForgotPasswordConfirm(tok, "NewPass1!")

SpecReset == InitReset /\ [][NextReset]_vars

\* status and body of a response
Body(r) == [status |-> r.status, detail |-> r.detail]

\* C21: the response of forgot-password-start (202, or 429 from the limiter)
\* and the response of a failed login carry the same status and body for
\* every email, whether or not a user with that email exists.
C21_SameResponseForUnknownEmail ==
    /\ (resp.op = "forgot_password_start" /\ resp.status # 429)
         => Body(resp) = [status |-> 202,
                          detail |-> "If the email exists, a verification code has been sent."]
    /\ (resp.op = "forgot_password_start" /\ resp.status = 429)
         => resp.detail = "Too many requests"
    /\ (resp.op = "login" /\ resp.status # 200)
         => Body(resp) = [status |-> 401, detail |-> "Credenciais invalidas"]

\* start has been answered for the email of user 1 after writing a second
\* reset row for it
C21_Witness ==
    /\ resp.op = "forgot_password_start" /\ resp.status = 202 /\ resp.email = "a@x.com"
    /\ UserByEmail("a@x.com") # {}
    /\ Len(password_resets) = 2
    /\ \A i \in DOMAIN password_resets : password_resets[i].email = "a@x.com"

\* the unconsumed reset rows of an email
OpenOf(email) ==
    {i \in DOMAIN password_resets :
        password_resets[i].email = email /\ ~password_resets[i].consumed}

\* process p finishes a forgot-password-verify request in this step
VerifyAnswered(p) == procs[p].pc = "verify_db" /\ procs'[p] = Idle

\* C22: a verify call with the correct OTP after otp_expires_at is answered
\* exactly as a verify call with an incorrect OTP: 400 "Invalid or expired
\* code" (and both fail alike, with 500, when the email has several
\* unconsumed resets).  The OTP is compared with the most recent unconsumed
\* reset of the email.
C22_ExpiredAnsweredAsIncorrect ==
    [][\A p \in Procs :
         (/\ VerifyAnswered(p)
          /\ OpenOf(procs[p].email) # {}
          /\ LET i == Max(OpenOf(procs[p].email)) IN
               \/ /\ verify_otp(procs[p].otp, password_resets[i].otp_hash)
                  /\ password_resets[i].otp_expires_at < now
               \/ ~verify_otp(procs[p].otp, password_resets[i].otp_hash))
         => Body(resp') =
              IF Cardinality(OpenOf(procs[p].email)) > 1
              THEN [status |-> 500, detail |-> "Internal Server Error"]
              ELSE [status |-> 400, detail |-> "Invalid or expired code"]]_vars

\* verify has answered a request that carried the correct OTP of the only
\* unconsumed reset of user 1, 300 s after that OTP expired
C22_Witness ==
    /\ resp.op = "forgot_password_verify" /\ resp.status = 400
    /\ resp.email = "a@x.com"
    /\ OpenOf("a@x.com") = {1}
    /\ verify_otp(resp.otp, password_resets[1].otp_hash)
    /\ password_resets[1].otp_expires_at + 300 = now

\* C23: a PasswordReset record is marked consumed only after it was
\* OTP-verified and had its reset session issued (STARTED, OTP_VERIFIED,
\* RESET_ISSUED, CONSUMED in this order, none skipped).
C23_ConsumedOnlyAfterIssued ==
    \A i \in DOMAIN password_resets :
        password_resets[i].consumed
            => password_resets[i].otp_verified /\ password_resets[i].reset_session_issued

\* process p finishes a verify request that carries the correct OTP of the
\* unexpired reset i and a TOTP code that verifies against the secret of the
\* user of that reset
TotpProven(p, i) ==
    /\ VerifyAnswered(p)
    /\ password_resets[i].email = procs[p].email
    /\ verify_otp(procs[p].otp, password_resets[i].otp_hash)
    /\ password_resets[i].otp_expires_at >= now
    /\ password_resets[i].user_id \in DOMAIN users
    /\ users[password_resets[i].user_id].two_factor_secret # None
    /\ procs[p].totp # None
    /\ verify_totp(users[password_resets[i].user_id].two_factor_secret, procs[p].totp)

\* C24: when the reset has require_totp, verify issues a reset-session token
\* only for a correct, unexpired OTP together with a TOTP code that verifies
\* against the user's secret, and totp_verified is set only in such a call.
C24_TotpRequiredForIssue ==
    [][/\ \A p \in Procs :
            (/\ VerifyAnswered(p)
             /\ resp'.status = 200
             /\ OpenOf(procs[p].email) # {}
             /\ password_resets[Max(OpenOf(procs[p].email))].require_totp)
            => TotpProven(p, Max(OpenOf(procs[p].email)))
       /\ \A i \in DOMAIN password_resets :
            (~password_resets[i].totp_verified /\ password_resets'[i].totp_verified)
            => \E p \in Procs : TotpProven(p, i)
       /\ \A tok \in issued' \ issued :
            (tok.scope = "pwd_reset" /\ IntOfStr(tok.sub) \in DOMAIN users
             /\ users[IntOfStr(tok.sub)].two_factor_enabled)
            => \E p \in Procs, i \in DOMAIN password_resets :
                  password_resets[i].user_id = IntOfStr(tok.sub) /\ TotpProven(p, i)]_vars

\* verify has issued a reset-session token for the two-factor user after a
\* request with the correct OTP and a valid TOTP code
C24_Witness ==
    /\ resp.op = "forgot_password_verify" /\ resp.status = 200
    /\ resp.email = "c@x.com"
    /\ resp.totp = <<"totp", TotpSecret>>
    /\ password_resets[1].require_totp /\ password_resets[1].totp_verified
    /\ resp.reset_session_token \in issued

\* C25: token_version counts the successful confirms: it changes only in a
\* step that answers forgot-password/confirm with 204 for that user, which
\* raises it by exactly 1; every other request, and every rejected one,
\* leaves it unchanged.
C25_TokenVersionCountsConfirms ==
    [][/\ \A u \in DOMAIN users :
            users'[u].token_version # users[u].token_version
            => /\ resp'.op = "confirm" /\ resp'.status = 204 /\ resp'.user = u
               /\ users'[u].token_version = users[u].token_version + 1
       /\ (resp'.op = "confirm" /\ resp'.status = 204 /\ resp' # resp)
            => users'[resp'.user].token_version
                 = users[resp'.user].token_version + 1]_vars

\* C26: every organization has exactly one type-specific record, of the
\* kind named by its organization_type, and the creator's active admin
\* membership from the step that created it on.
C26_OneTypeRecordPerOrganization ==
    /\ \A o \in DOMAIN organizations :
          {t \in type_records : t.organization_id = o}
            = {[kind |-> organizations[o].organization_type, organization_id |-> o]}
    /\ \A t \in type_records : t.organization_id \in DOMAIN organizations
    /\ \A k \in DOMAIN org_members : k[1] \in DOMAIN organizations

(***************************************************************************)
(* Concurrent registration: register (auth.py:141-168) reads the users     *)
(* table, then inserts; users.email carries a unique index                 *)
(* (app/models/user.py:10).  Each request has its own session.             *)
(***************************************************************************)
\* select(User).filter(User.email == user.email); 400 when a row comes back
RegisterSelect(p, email, password) ==
    LET pr == [op |-> "register", pc |-> "insert", email |-> email,
               password |-> password, status |-> 0] IN
    /\ procs[p] = Idle
    /\ IF UserByEmail(email) # {}
       THEN /\ procs' = [procs EXCEPT ![p] = Done(pr, 400)]
            /\ resp' = [op |-> "register", status |-> 400, email |-> email,
                        detail |-> "Email ja cadastrado"]
       ELSE /\ procs' = [procs EXCEPT ![p] = pr]
            /\ UNCHANGED resp
    /\ UNCHANGED <<users, teams, team_members, organizations, org_members,
                   type_records, password_resets, issued, blacklist, debug,
                   rate_limits, now, admitted>>

\* db.add(new_user); flush; db.add(new_team); flush; commit.  The INSERT
\* waits for a concurrent insert of the same email to commit and then fails
\* on the unique index: IntegrityError, which no handler catches.
RegisterInsert(p) ==
    LET pr == procs[p]
        uid == NextId(DOMAIN users)
        tid == NextId(DOMAIN teams)
        row == [email |-> pr.email, password |-> get_password_hash(pr.password),
                token_version |-> 1, two_factor_enabled |-> FALSE,
                two_factor_secret |-> None, current_team_id |-> tid]
        tok == create_access_token(uid, row.token_version) IN
    /\ pr.pc = "insert"
    /\ IF UserByEmail(pr.email) # {}
       THEN /\ procs' = [procs EXCEPT ![p] = Done(pr, 500)]
            /\ resp' = [op |-> "register", status |-> 500, email |-> pr.email,
                        detail |-> "Internal Server Error"]
            /\ UNCHANGED <<users, teams, issued>>
       ELSE /\ users' = (uid :> row) @@ users
            /\ teams' = (tid :> [user_id |-> uid, name |-> "Time de",
                                 personal_team |-> TRUE, archived |-> FALSE,
                                 archived_at |-> None]) @@ teams
            /\ issued' = issued \cup {tok}
            /\ procs' = [procs EXCEPT ![p] = Done(pr, 200)]
            /\ resp' = [op |-> "register", status |-> 200, email |-> pr.email,
                        access_token |-> tok]
    /\ UNCHANGED <<team_members, organizations, org_members, type_records,
                   password_resets, blacklist, debug, rate_limits, now, admitted>>

RegisterEmails == {"a@x.com", "b@x.com", "c@x.com"}

InitRegisterConc ==
    /\ users = (1 :> User1)
    /\ teams = (1 :> Team1)
    /\ team_members = << >>
    /\ organizations = << >>
    /\ org_members = << >>
    /\ type_records = {}
    /\ password_resets = << >>
    /\ issued = {}
    /\ blacklist = {}
    /\ debug = FALSE
    /\ rate_limits = << >>
    /\ now = 0
    /\ admitted = << >>
    /\ procs = [p \in Procs |-> Idle]
    /\ resp = NoResp

NextRegisterConc ==
    \/ \E p \in Procs, e \in RegisterEmails, pw \in Passwords : RegisterSelect(p, e, pw)
    \/ \E p \in Procs : RegisterInsert(p)

SpecRegisterConc == InitRegisterConc /\ [][NextRegisterConc]_vars

\* C27: when the concurrent registrations of one email have all answered,
\* exactly one of them succeeded, one user has that email, and every other
\* one was rejected with the duplicate-email error (400).
C27_OneRegistrationWins ==
    (/\ \A p \in Procs : procs[p].pc = "done"
     /\ \A p, q \in Procs : procs[p].email = procs[q].email
     /\ procs[1].email \notin {User1.email})
    => /\ Cardinality({p \in Procs : procs[p].status = 200}) = 1
       /\ Cardinality(UserByEmail(procs[1].email)) = 1
       /\ \A p \in Procs : procs[p].status \in {200, 400}

\* C28: when an email has several unconsumed PasswordReset records, verify
\* evaluates the most recent one and confirm marks the most recent one
\* consumed; neither request fails because of the older records.
C28_MostRecentResetIsUsed ==
    [][/\ \A p \in Procs :
            (VerifyAnswered(p) /\ Cardinality(OpenOf(procs[p].email)) > 1)
            => /\ resp'.status # 500
               /\ \A i \in DOMAIN password_resets :
                     i # Max(OpenOf(procs[p].email))
                     => password_resets'[i] = password_resets[i]
       /\ \A u \in DOMAIN users :
            (/\ resp'.op = "confirm"
             /\ users'[u] # users[u]
             /\ Cardinality(UnconsumedOf(password_resets, u)) > 1)
            => /\ resp'.status = 204
               /\ password_resets'[Max(UnconsumedOf(password_resets, u))].consumed]_vars

\* C29: a confirm applies the new password hash, the token_version
\* increment and the consumption of the reset record together or not at
\* all: a step that changes a user's row leaves no reset of that user
\* unconsumed, and a reset is consumed only in a step that changes the row
\* of its user.
C29_ConfirmIsAllOrNothing ==
    [][/\ \A u \in DOMAIN users :
            users'[u] # users[u] => UnconsumedOf(password_resets', u) = {}
       /\ \A i \in DOMAIN password_resets :
            (~password_resets[i].consumed /\ password_resets'[i].consumed)
            => users'[password_resets[i].user_id] # users[password_resets[i].user_id]]_vars

(***************************************************************************)
(* A user in two organizations: user 1 owns team 1; user 2 is an active    *)
(* member of organization 1 (provider) and of organization 2 (client),     *)
(* which the owner adds to the team.                                       *)
(***************************************************************************)
InitTwoOrgs ==
    /\ users = (1 :> User1 @@ 2 :> User2)
    /\ teams = (1 :> SharedTeam)
    /\ team_members = << >>
    /\ organizations = (1 :> [organization_type |-> "provider", archived |-> FALSE]
                          @@ 2 :> [organization_type |-> "client", archived |-> FALSE])
    /\ org_members = (<<1, 2>> :> [role |-> "member", status |-> "active"]
                        @@ <<2, 2>> :> [role |-> "member", status |-> "active"])
    /\ type_records = {}
    /\ password_resets = << >>
    /\ issued = TeamTokens
    /\ blacklist = {}
    /\ debug = FALSE
    /\ rate_limits = << >>
    /\ now = 0
    /\ admitted = << >>
    /\ procs = << >>
    /\ resp = NoResp

NextTwoOrgs ==
    \/ \E tok \in TeamTokens, tid \in TeamIdInputs : UpdateTeam(tok, tid, "Renamed")
    \/ \E tok \in TeamTokens, o \in OrgIdInputs, r \in TeamRole :
          AddOrganizationToTeam(tok, 1, o, r)
    \/ \E tok \in TeamTokens, k \in MemberKeyInputs :
          RemoveTeamMember(tok, 1, k[1], k[2])

SpecTwoOrgs == InitTwoOrgs /\ [][NextTwoOrgs]_vars

\* C30: for a user who is an active member of several organizations that are
\* active members of the team, the resolver has one result, fixed by the
\* stored rows.
C30_ResolverIsAFunctionOfTheRows ==
    \A u \in DOMAIN users, t \in DOMAIN teams :
        Cardinality(OrgMembershipRows(u, t)) >= 2
        => Cardinality(get_team_member_context(u, t)) = 1

====
